---- MODULE Spec2Model ----
(***************************************************************************)
(* Two-phase chaos reconciler (controllers/twophase/types.go).             *)
(*                                                                         *)
(* One chaos resource is kept in an object store.  Users mark it deleted   *)
(* or toggle its pause annotation, a clock advances, and the controller    *)
(* runs Reconciler.Reconcile on it.  Every Reconcile* action below is one  *)
(* whole run of the handler through one branch of its if/else chain, from  *)
(* the r.Get at the top to the r.Update at the bottom.                     *)
(*                                                                         *)
(* Time is counted in ticks.  time.Time{} (the zero time, which is before  *)
(* every clock reading) is 0 and the clock starts at 1.                    *)
(***************************************************************************)
EXTENDS Integers, Naturals, Sequences, FiniteSets, TLC

\* ---- bounds of the model ----
MaxTime == 6
MaxLatency == 1
MaxPeriod == 3
MaxDuration == 3
MaxPods == 2
MaxGone == 1
MaxCommits == 2
MaxRetry == 1
MaxTcs == 3

\* the longest name of a namespace or pod, in characters
MaxNameLen == 2

\* the containers of a pod besides its init container
MaxContainers == 2

\* the Event records the store is followed up to
MaxEvents == 3

\* ---- values ----
Zero == 0
NilDuration == -1
BadDuration == -2
NoScheduler == 0
NoDurationString == -1

ExperimentPhaseNone == ""
ExperimentPhaseWaiting == "Waiting"
ExperimentPhaseRunning == "Running"
ExperimentPhasePaused == "Paused"
ExperimentPhaseFinished == "Finished"
ExperimentPhaseFailed == "Failed"

ErrNil == "nil"
ErrDuration == "failed to get chaos duration"
ErrMisdefined == "misdefined scheduler"
ErrRecover == "RecoverError"
ErrApply == "ApplyError"
ErrTooTight == "nextRecover shouldn't be later than nextStart"
ErrUpdate == "unable to update chaos status"

Periods == 2..MaxPeriod
Durations == 1..MaxDuration

VARIABLES clock, chaos, last

\* the per-kind injectors: the stored resource with its finalizers, the
\* target pods, and what the last reconcile of that resource did
VARIABLES res, pods, ilast

injVars == <<res, pods, ilast>>

\* the aggregate document of one pod with its resource version, and the
\* commit each network-chaos source has in progress on it
VARIABLES doc, writer

aggVars == <<doc, writer>>

\* the chaos daemon, traffic control: the items of the request (in.Tcs), the
\* qdisc commands that took effect on eth0 since its last flush, and what
\* the last SetTcs call did
VARIABLES tcs, eth0, tlast

\* the chaos daemon, packet filter: the chains of the request (req.Chains),
\* the chains of the network namespace with their rules, and what the last
\* SetIptablesChains call did
VARIABLES chains, netns, plast

daemonVars == <<tcs, eth0, tlast, chains, netns, plast>>

\* the flush phase of one partition Apply: where each per-pod task of the
\* errgroup is, the variable err of Apply that the tasks share, what each
\* task returned, and the Apply call itself
VARIABLES flushTask, errShared, flushRet, flushApply

flushVars == <<flushTask, errShared, flushRet, flushApply>>

\* the partition injector's finalizer of one pod: the pod key and direction
\* given to BlockSet, the finalizer it inserted, and what Recover split it
\* into
VARIABLES fkey

\* the pod that pod-failure is applied to: the images of its containers,
\* its annotations, and what the last failPod call did
VARIABLES victim

\* the collector: the chaos resource it watches and the Event records of
\* the event store
VARIABLES ev

\* one partition among the peer pods: the resource, the ipsets and the
\* network namespace of every pod
VARIABLES net

flushOthers == <<fkey, victim, ev, net>>

restVars == <<flushVars, fkey, victim, ev, net>>

vars == <<clock, chaos, last, res, pods, ilast, doc, writer,
          tcs, eth0, tlast, chains, netns, plast,
          flushTask, errShared, flushRet, flushApply, fkey, victim, ev, net>>

\* the source tag of this resource in a pod's aggregate, and another one's
SourceSelf == "ns/chaos"
SourceOther == "ns/other"

Sources == {SourceSelf, SourceOther}

\* an aggregate nobody has written yet
NewDoc == [version |-> 0, items |-> <<>>]

\* a source with no commit in progress: what its last commit wanted, how many
\* commits it made, how often the last one lost the compare-and-set
IdleWriter ==
    [pc |-> "idle", seen |-> 0, base |-> <<>>, items |-> <<>>,
     has |-> FALSE, commits |-> 0, tries |-> 0, lost |-> 0]

AggInit ==
    /\ doc = NewDoc
    /\ writer = [s \in Sources |-> IdleWriter]

\* ---- the chaos daemon at rest ----
\* pb.Chain_INPUT, pb.Chain_OUTPUT, and a direction value outside the enum
Chain_INPUT == "INPUT"
Chain_OUTPUT == "OUTPUT"
Chain_UNKNOWN == "UNKNOWN"

\* iptable.GenerateName(direction, networkchaos): one child chain per
\* direction for the resource
GenerateName(direction) == direction \o "/chaos"

\* the chains a namespace can hold: the built-in ones, the two top-level
\* chaos chains of initializeEnv, and the child chains
ChainNames ==
    {"INPUT", "OUTPUT", "CHAOS-INPUT", "CHAOS-OUTPUT",
     GenerateName(Chain_INPUT), GenerateName(Chain_OUTPUT),
     GenerateName(Chain_UNKNOWN)}

\* a network namespace nothing was installed in
FreshNetns ==
    [exists |-> {"INPUT", "OUTPUT"}, rules |-> [c \in ChainNames |-> <<>>]]

\* no SetTcs call yet / no SetIptablesChains call yet
NoTcCall ==
    [step |-> "none", err |-> ErrNil, order |-> <<>>,
     rebuilt |-> FALSE, before |-> <<>>]

NoIptCall == [step |-> "none", err |-> ErrNil, hit |-> "none", stale |-> {}]

DaemonInit ==
    /\ tcs = <<>>
    /\ eth0 = <<>>
    /\ tlast = NoTcCall
    /\ chains = <<>>
    /\ netns = FreshNetns
    /\ plast = NoIptCall

\* no partition Apply in progress
NoApply ==
    [pc |-> "idle", err |-> ErrNil, installed |-> {}, flushFailed |-> {}]

FlushInit ==
    /\ flushTask = [p \in {} |-> "done"]
    /\ errShared = ErrNil
    /\ flushRet = [p \in {} |-> ErrNil]
    /\ flushApply = NoApply

\* no finalizer handled yet
NoKey ==
    [step |-> "none", direction |-> "", ns |-> <<>>, name |-> <<>>,
     key |-> <<>>, finalizer |-> <<>>,
     parsed |-> [direction |-> <<>>, podKey |-> <<>>, rule |-> "",
                 ns |-> <<>>, name |-> <<>>, err |-> ErrNil]]

\* no pod given to pod-failure yet
NoVictim ==
    [step |-> "none", images |-> <<>>, annotations |-> <<>>,
     origin |-> <<>>, skipped |-> {}]

\* a collector that has seen nothing, and an empty event store
NoEvents ==
    [step |-> "none", phase |-> "", startTime |-> 0, deleted |-> FALSE,
     events |-> <<>>]

\* no partition created yet
NoPartition ==
    [step |-> "none", round |-> 0, direction |-> "", sources |-> {},
     targets |-> {}, ipsets |-> <<>>, netns |-> <<>>]

RestInit ==
    /\ FlushInit
    /\ fkey = NoKey
    /\ victim = NoVictim
    /\ ev = NoEvents
    /\ net = NoPartition

\* ---- time.Time ----
IsZero(t) == t = Zero

Before(t, u) == t < u

After(t, u) == t > u

\* ---- accessors of the chaos object ----
IsDeleted(c) == c.deleted

IsPaused(c) == c.paused

GetNextStart(c) == c.nextStart

GetNextRecover(c) == c.nextRecover

SetNextStart(c, t) == [c EXCEPT !.nextStart = t]

SetNextRecover(c, t) == [c EXCEPT !.nextRecover = t]

\* duration == nil is replaced by 0 * time.Second
DurationOf(c) == IF c.duration = NilDuration THEN 0 ELSE c.duration

\* utils.NextTime: the next firing of the cron rule strictly after now.
\* The rule fires at every multiple of its period.
NextTime(period, now) == ((now \div period) + 1) * period

\* ---- the result of one run of the handler, before the final Update ----
\* upd: "none" = no Update is issued, "final" = the r.Update that ends
\* Reconcile, "retry" = the retry.RetryOnConflict Update inside applyAction.
Outcome(obj, err, requeue, after, rcalled, acalled, adur, upd) ==
    [obj |-> obj, err |-> err, requeue |-> requeue, requeueAfter |-> after,
     recoverCalled |-> rcalled, applyCalled |-> acalled, applyDur |-> adur,
     upd |-> upd]

\* ---- the conditions of the if/else chain of Reconcile ----
\* !chaos.GetNextRecover().IsZero() && chaos.GetNextRecover().Before(now)
RecoverDue(c, now) ==
    ~IsZero(GetNextRecover(c)) /\ Before(GetNextRecover(c), now)

\* phase == Paused && !GetNextRecover().IsZero() && GetNextRecover().After(now)
ResumeDue(c, now) ==
    /\ c.phase = ExperimentPhasePaused
    /\ ~IsZero(GetNextRecover(c))
    /\ After(GetNextRecover(c), now)

\* chaos.GetNextStart().Before(now)
StartDue(c, now) == Before(GetNextStart(c), now)

\* variant: the guard is missing
TooTight_Missing(nextStart, nextRecover) == FALSE

\* variant: a round whose recover time equals the next start is refused too
TooTight_Strict(nextStart, nextRecover) == ~Before(nextRecover, nextStart)

\* nextStart.Before(nextRecover)
TooTight(nextStart, nextRecover) == Before(nextStart, nextRecover)

\* variant: the deletion is handled before the scheduler is looked at
Step_DeleteFirst(c, now) ==
    IF c.duration = BadDuration THEN "duration"
    ELSE IF IsDeleted(c) THEN "delete"
    ELSE IF c.scheduler = NoScheduler THEN "misdefined"
    ELSE IF IsPaused(c) THEN "pause"
    ELSE IF RecoverDue(c, now) THEN "recover"
    ELSE IF ResumeDue(c, now) THEN "resume"
    ELSE IF StartDue(c, now) THEN "start"
    ELSE "requeue"

\* The branch one run of Reconcile takes, early returns first.
Step(c, now) ==
    IF c.duration = BadDuration THEN "duration"
    ELSE IF c.scheduler = NoScheduler THEN "misdefined"
    ELSE IF IsDeleted(c) THEN "delete"
    ELSE IF IsPaused(c) THEN "pause"
    ELSE IF RecoverDue(c, now) THEN "recover"
    ELSE IF ResumeDue(c, now) THEN "resume"
    ELSE IF StartDue(c, now) THEN "start"
    ELSE "requeue"

\* ---- applyAction ----
\* variant: startTime is not recorded
applyAction_NoStartTime(c, duration, applyOk, now2) ==
    IF ~applyOk
    THEN [c EXCEPT !.phase = ExperimentPhaseFailed]
    ELSE [c EXCEPT !.phase = ExperimentPhaseRunning,
                   !.expDuration = duration]

\* variant: a failed Apply leaves the phase as it was
applyAction_NoFailed(c, duration, applyOk, now2) ==
    IF ~applyOk
    THEN c
    ELSE [c EXCEPT !.startTime = now2,
                   !.phase = ExperimentPhaseRunning,
                   !.expDuration = duration]

\* The status applyAction leaves on the object: Failed when r.Apply returned
\* an error, else Running with startTime = time.Now() (read after r.Apply).
applyAction(c, duration, applyOk, now2) ==
    IF ~applyOk
    THEN [c EXCEPT !.phase = ExperimentPhaseFailed]
    ELSE [c EXCEPT !.startTime = now2,
                   !.phase = ExperimentPhaseRunning,
                   !.expDuration = duration]

\* ---- the branches ----
earlyReturn(c, err) == Outcome(c, err, FALSE, 0, FALSE, FALSE, 0, "none")
\* variant: the phase is left as it was
deletedBranch_KeepPhase(c, recoverOk) ==
    IF ~recoverOk
    THEN Outcome(c, ErrRecover, TRUE, 0, TRUE, FALSE, 0, "none")
    ELSE Outcome(c, ErrNil, FALSE, 0, TRUE, FALSE, 0, "final")

\* variant: the error of Recover is dropped
deletedBranch_IgnoreError(c, recoverOk) ==
    Outcome([c EXCEPT !.phase = ExperimentPhaseFinished],
            ErrNil, FALSE, 0, TRUE, FALSE, 0, "final")


deletedBranch(c, recoverOk) ==
    IF ~recoverOk
    THEN Outcome(c, ErrRecover, TRUE, 0, TRUE, FALSE, 0, "none")
    ELSE Outcome([c EXCEPT !.phase = ExperimentPhaseFinished],
                 ErrNil, FALSE, 0, TRUE, FALSE, 0, "final")
\* variant: endTime is not recorded
pausedBranch_NoEndTime(c, recoverOk, now2) ==
    IF c.phase = ExperimentPhaseRunning
    THEN IF ~recoverOk
         THEN Outcome(c, ErrRecover, TRUE, 0, TRUE, FALSE, 0, "none")
         ELSE Outcome([c EXCEPT !.phase = ExperimentPhasePaused],
                      ErrNil, FALSE, 0, TRUE, FALSE, 0, "final")
    ELSE Outcome([c EXCEPT !.phase = ExperimentPhasePaused],
                 ErrNil, FALSE, 0, FALSE, FALSE, 0, "final")

\* variant: the phase becomes Paused only from Running
pausedBranch_OnlyRunning(c, recoverOk, now2) ==
    IF c.phase = ExperimentPhaseRunning
    THEN IF ~recoverOk
         THEN Outcome(c, ErrRecover, TRUE, 0, TRUE, FALSE, 0, "none")
         ELSE Outcome([c EXCEPT !.endTime = now2,
                                !.expDuration = IF c.startTime # Zero
                                                THEN now2 - c.startTime
                                                ELSE @,
                                !.phase = ExperimentPhasePaused],
                      ErrNil, FALSE, 0, TRUE, FALSE, 0, "final")
    ELSE Outcome(c, ErrNil, FALSE, 0, FALSE, FALSE, 0, "final")


pausedBranch(c, recoverOk, now2) ==
    IF c.phase = ExperimentPhaseRunning
    THEN IF ~recoverOk
         THEN Outcome(c, ErrRecover, TRUE, 0, TRUE, FALSE, 0, "none")
         ELSE Outcome([c EXCEPT !.endTime = now2,
                                !.expDuration = IF c.startTime # Zero
                                                THEN now2 - c.startTime
                                                ELSE @,
                                !.phase = ExperimentPhasePaused],
                      ErrNil, FALSE, 0, TRUE, FALSE, 0, "final")
    ELSE Outcome([c EXCEPT !.phase = ExperimentPhasePaused],
                 ErrNil, FALSE, 0, FALSE, FALSE, 0, "final")

recoverBranch(c, recoverOk, now2) ==
    LET called == c.phase # ExperimentPhasePaused IN
    IF called /\ ~recoverOk
    THEN Outcome(c, ErrRecover, TRUE, 0, TRUE, FALSE, 0, "none")
    ELSE Outcome([SetNextRecover(c, Zero) EXCEPT
                      !.endTime = now2,
                      !.phase = ExperimentPhaseWaiting],
                 ErrNil, FALSE, 0, called, FALSE, 0, "final")
\* variant: the resumed round runs for the whole configured duration
resumeBranch_Restart(c, now, applyOk, now2) ==
    LET dur == DurationOf(c)
        obj == applyAction(c, dur, applyOk, now2)
    IN  IF ~applyOk
        THEN Outcome(obj, ErrApply, TRUE, 0, FALSE, TRUE, dur, "retry")
        ELSE Outcome(SetNextRecover(obj, now + dur),
                     ErrNil, FALSE, 0, FALSE, TRUE, dur, "final")


resumeBranch(c, now, applyOk, now2) ==
    LET dur == GetNextRecover(c) - now
        obj == applyAction(c, dur, applyOk, now2)
    IN  IF ~applyOk
        THEN Outcome(obj, ErrApply, TRUE, 0, FALSE, TRUE, dur, "retry")
        ELSE Outcome(obj, ErrNil, FALSE, 0, FALSE, TRUE, dur, "final")

\* variant: nextRecover is computed from the clock reading after Apply
startBranch_RecoverAfterApply(c, now, applyOk, now2) ==
    LET duration == DurationOf(c)
        nextStart == NextTime(c.scheduler, now)
        nextRecover == now + duration
        obj == applyAction(c, duration, applyOk, now2)
    IN  IF TooTight(nextStart, nextRecover)
        THEN Outcome(c, ErrTooTight, FALSE, 0, FALSE, FALSE, 0, "none")
        ELSE IF ~applyOk
        THEN Outcome(obj, ErrApply, TRUE, 0, FALSE, TRUE, duration, "retry")
        ELSE Outcome(SetNextRecover(SetNextStart(obj, nextStart),
                                    now2 + duration),
                     ErrNil, FALSE, 0, FALSE, TRUE, duration, "final")

startBranch(c, now, applyOk, now2) ==
    LET duration == DurationOf(c)
        nextStart == NextTime(c.scheduler, now)
        nextRecover == now + duration
        obj == applyAction(c, duration, applyOk, now2)
    IN  IF TooTight(nextStart, nextRecover)
        THEN Outcome(c, ErrTooTight, FALSE, 0, FALSE, FALSE, 0, "none")
        ELSE IF ~applyOk
        THEN Outcome(obj, ErrApply, TRUE, 0, FALSE, TRUE, duration, "retry")
        ELSE Outcome(SetNextRecover(SetNextStart(obj, nextStart), nextRecover),
                     ErrNil, FALSE, 0, FALSE, TRUE, duration, "final")

requeueBranch(c, now) ==
    LET nextTime == IF /\ ~IsZero(GetNextRecover(c))
                       /\ Before(GetNextRecover(c), GetNextStart(c))
                    THEN GetNextRecover(c)
                    ELSE GetNextStart(c)
    IN  Outcome(c, ErrNil, FALSE, nextTime - now, FALSE, FALSE, 0, "none")

\* ---- the end of a run: the Update and the returned result ----
\* A rejected final Update returns its error; a rejected Update inside
\* applyAction is only logged.  clock' = now2: the run took now2 - now.
Finish(step, now, now2, o, recoverOk, applyOk, updateOk) ==
    /\ chaos' = IF o.upd # "none" /\ updateOk THEN o.obj ELSE chaos
    /\ clock' = now2
    /\ last' = [step |-> step, now |-> now, now2 |-> now2,
                pre |-> chaos, obj |-> o.obj,
                err |-> IF o.upd = "final" /\ ~updateOk THEN ErrUpdate
                        ELSE o.err,
                requeue |-> o.requeue,
                requeueAfter |-> o.requeueAfter,
                recoverCalled |-> o.recoverCalled, recoverOk |-> recoverOk,
                applyCalled |-> o.applyCalled, applyOk |-> applyOk,
                applyDur |-> o.applyDur,
                upd |-> o.upd, updateOk |-> updateOk]
    /\ UNCHANGED injVars
    /\ UNCHANGED aggVars
    /\ UNCHANGED restVars
    /\ UNCHANGED daemonVars

Accepts(o) == IF o.upd = "none" THEN {TRUE} ELSE BOOLEAN

Later(now) == {t \in now..(now + MaxLatency) : t <= MaxTime}

\* ---- actions ----
Tick ==
    /\ clock < MaxTime
    /\ clock' = clock + 1
    /\ UNCHANGED <<chaos, last>>
    /\ UNCHANGED injVars
    /\ UNCHANGED aggVars
    /\ UNCHANGED restVars
    /\ UNCHANGED daemonVars

\* the user deletes the resource (deletion timestamp set)
UserDelete ==
    /\ ~chaos.deleted
    /\ chaos' = [chaos EXCEPT !.deleted = TRUE]
    /\ UNCHANGED <<clock, last>>
    /\ UNCHANGED injVars
    /\ UNCHANGED aggVars
    /\ UNCHANGED restVars
    /\ UNCHANGED daemonVars

\* the user sets the pause annotation to "true"
UserPause ==
    /\ ~chaos.paused
    /\ chaos' = [chaos EXCEPT !.paused = TRUE]
    /\ UNCHANGED <<clock, last>>
    /\ UNCHANGED injVars
    /\ UNCHANGED aggVars
    /\ UNCHANGED restVars
    /\ UNCHANGED daemonVars

\* the user sets the pause annotation to "false"
UserUnpause ==
    /\ chaos.paused
    /\ chaos' = [chaos EXCEPT !.paused = FALSE]
    /\ UNCHANGED <<clock, last>>
    /\ UNCHANGED injVars
    /\ UNCHANGED aggVars
    /\ UNCHANGED restVars
    /\ UNCHANGED daemonVars

ReconcileDurationError ==
    /\ Step(chaos, clock) = "duration"
    /\ Finish("duration", clock, clock, earlyReturn(chaos, ErrDuration),
              TRUE, TRUE, TRUE)

ReconcileMisdefined ==
    /\ Step(chaos, clock) = "misdefined"
    /\ Finish("misdefined", clock, clock, earlyReturn(chaos, ErrMisdefined),
              TRUE, TRUE, TRUE)

ReconcileDeleted ==
    /\ Step(chaos, clock) = "delete"
    /\ \E recoverOk \in BOOLEAN :
         LET o == deletedBranch(chaos, recoverOk) IN
         \E updateOk \in Accepts(o) :
           Finish("delete", clock, clock, o, recoverOk, TRUE, updateOk)

ReconcilePaused ==
    /\ Step(chaos, clock) = "pause"
    /\ \E recoverOk \in (IF chaos.phase = ExperimentPhaseRunning
                         THEN BOOLEAN ELSE {TRUE}) :
       \E now2 \in (IF chaos.phase = ExperimentPhaseRunning /\ recoverOk
                    THEN Later(clock) ELSE {clock}) :
         LET o == pausedBranch(chaos, recoverOk, now2) IN
         \E updateOk \in Accepts(o) :
           Finish("pause", clock, now2, o, recoverOk, TRUE, updateOk)

ReconcileRecover ==
    /\ Step(chaos, clock) = "recover"
    /\ \E recoverOk \in (IF chaos.phase # ExperimentPhasePaused
                         THEN BOOLEAN ELSE {TRUE}) :
       \E now2 \in (IF recoverOk THEN Later(clock) ELSE {clock}) :
         LET o == recoverBranch(chaos, recoverOk, now2) IN
         \E updateOk \in Accepts(o) :
           Finish("recover", clock, now2, o, recoverOk, TRUE, updateOk)

ReconcileResume ==
    /\ Step(chaos, clock) = "resume"
    /\ \E applyOk \in BOOLEAN :
       \E now2 \in (IF applyOk THEN Later(clock) ELSE {clock}) :
         LET o == resumeBranch(chaos, clock, applyOk, now2) IN
         \E updateOk \in Accepts(o) :
           Finish("resume", clock, now2, o, TRUE, applyOk, updateOk)

ReconcileStart ==
    /\ Step(chaos, clock) = "start"
    /\ \E applyOk \in (IF TooTight(NextTime(chaos.scheduler, clock),
                                   clock + DurationOf(chaos))
                       THEN {TRUE} ELSE BOOLEAN) :
       \E now2 \in (IF applyOk /\ ~TooTight(NextTime(chaos.scheduler, clock),
                                            clock + DurationOf(chaos))
                    THEN Later(clock) ELSE {clock}) :
         LET o == startBranch(chaos, clock, applyOk, now2) IN
         \E updateOk \in Accepts(o) :
           Finish("start", clock, now2, o, TRUE, applyOk, updateOk)

ReconcileRequeue ==
    /\ Step(chaos, clock) = "requeue"
    /\ Finish("requeue", clock, clock, requeueBranch(chaos, clock),
              TRUE, TRUE, TRUE)

\* ---- the state after construction ----
NewChaos(scheduler, duration) ==
    [scheduler |-> scheduler, duration |-> duration,
     deleted |-> FALSE, paused |-> FALSE,
     phase |-> ExperimentPhaseNone,
     startTime |-> Zero, endTime |-> Zero,
     expDuration |-> NoDurationString,
     nextStart |-> Zero, nextRecover |-> Zero]

NoRun(c) ==
    [step |-> "none", now |-> Zero, now2 |-> Zero, pre |-> c, obj |-> c,
     err |-> ErrNil, requeue |-> FALSE, requeueAfter |-> 0,
     recoverCalled |-> FALSE, recoverOk |-> TRUE,
     applyCalled |-> FALSE, applyOk |-> TRUE, applyDur |-> 0,
     upd |-> "none", updateOk |-> TRUE]

Init ==
    /\ clock = 1
    /\ \E scheduler \in {NoScheduler} \cup Periods,
          duration \in {NilDuration, BadDuration} \cup Durations :
         chaos = NewChaos(scheduler, duration)
    /\ last = NoRun(chaos)
    /\ res = NewChaos(NoScheduler, NilDuration)
    /\ pods = <<>>
    /\ ilast = NoRun(res)
    /\ AggInit
    /\ RestInit
    /\ DaemonInit

Next ==
    \/ Tick
    \/ UserDelete
    \/ UserPause
    \/ UserUnpause
    \/ ReconcileDurationError
    \/ ReconcileMisdefined
    \/ ReconcileDeleted
    \/ ReconcilePaused
    \/ ReconcileRecover
    \/ ReconcileResume
    \/ ReconcileStart
    \/ ReconcileRequeue

Spec == Init /\ [][Next]_vars

\* ---- what the last run of Reconcile saw and did ----
\* Reconcile got past its early returns on a resource that has a scheduler.
Ran == last.step \notin {"none", "duration", "misdefined"}

\* the Update of the last run was issued and accepted by the store
Stored == last.upd # "none" /\ last.updateOk

\* no earlier branch of the chain applied and nextStart was before now
NewRoundDue ==
    /\ Ran
    /\ ~last.pre.deleted
    /\ ~last.pre.paused
    /\ ~RecoverDue(last.pre, last.now)
    /\ ~ResumeDue(last.pre, last.now)
    /\ Before(last.pre.nextStart, last.now)

\* C1: on a resource with a scheduler, whenever nextRecover and nextStart are
\* both set, nextRecover is not later than nextStart, on the stored object
\* and on the object the last reconcile ended with.
C1_NextRecoverNotAfterNextStart ==
    /\ (~IsZero(chaos.nextRecover) /\ ~IsZero(chaos.nextStart))
          => chaos.nextRecover <= chaos.nextStart
    /\ (~IsZero(last.obj.nextRecover) /\ ~IsZero(last.obj.nextStart))
          => last.obj.nextRecover <= last.obj.nextStart

C1_Witness ==
    /\ last.step = "start"
    /\ Stored
    /\ ~IsZero(chaos.nextRecover)
    /\ chaos.nextRecover < chaos.nextStart

\* C2 as stated: when a new round is due, Apply is called only if
\* now + duration is strictly earlier than the next cron firing after now;
\* otherwise the reconcile fails as too tight and Apply is not called.
C2_AsStated ==
    NewRoundDue =>
      /\ last.applyCalled <=>
           (last.now + DurationOf(last.pre)
              < NextTime(last.pre.scheduler, last.now))
      /\ ~last.applyCalled => last.err = ErrTooTight

\* C2 amended: when a new round is due, Apply is called exactly if
\* now + duration is not later than the next cron firing after now (equal is
\* accepted); otherwise the reconcile returns the too-tight error without
\* requeue, calls neither Apply nor Update and changes nothing.
C2_ApplyOnlyIfNotLater ==
    NewRoundDue =>
      /\ last.applyCalled <=>
           (last.now + DurationOf(last.pre)
              <= NextTime(last.pre.scheduler, last.now))
      /\ ~last.applyCalled =>
           /\ last.err = ErrTooTight
           /\ ~last.requeue
           /\ last.upd = "none"
           /\ last.obj = last.pre

C2_Witness ==
    /\ NewRoundDue
    /\ last.applyCalled
    /\ last.now + DurationOf(last.pre) = NextTime(last.pre.scheduler, last.now)

\* C3: when the resource is marked deleted and Recover succeeds, the
\* reconcile sets phase Finished and issues the final Update with it; the
\* stored resource has phase Finished once the store accepts that Update.
C3_DeletedRecoveredIsFinished ==
    (Ran /\ last.pre.deleted /\ last.recoverOk) =>
      /\ last.recoverCalled
      /\ last.upd = "final"
      /\ last.obj.phase = ExperimentPhaseFinished
      /\ last.updateOk => chaos.phase = ExperimentPhaseFinished

C3_Witness ==
    /\ Ran /\ last.pre.deleted /\ last.recoverOk /\ Stored
    /\ last.pre.phase = ExperimentPhaseRunning
    /\ chaos.phase = ExperimentPhaseFinished

\* C4: when the resource is marked deleted and Recover returns an error, the
\* reconcile returns that error with Requeue set, issues no Update and leaves
\* the phase as it was.
C4_DeletedRecoverErrorRequeues ==
    (Ran /\ last.pre.deleted /\ ~last.recoverOk) =>
      /\ last.recoverCalled
      /\ last.err = ErrRecover
      /\ last.requeue
      /\ last.upd = "none"
      /\ last.obj.phase = last.pre.phase
      /\ chaos.phase = last.pre.phase

C4_Witness ==
    /\ Ran /\ last.pre.deleted /\ ~last.recoverOk
    /\ last.err = ErrRecover
    /\ chaos.phase = ExperimentPhaseRunning

\* C5: when the pause annotation is true on a non-deleted resource whose
\* phase is Running, the reconcile calls Recover and, once Recover succeeds,
\* sets phase Paused and records as endTime the clock reading taken after
\* Recover returned.
C5_PauseRunning ==
    (Ran /\ ~last.pre.deleted /\ last.pre.paused
         /\ last.pre.phase = ExperimentPhaseRunning) =>
      /\ last.recoverCalled
      /\ ~last.applyCalled
      /\ last.recoverOk =>
           /\ last.obj.phase = ExperimentPhasePaused
           /\ last.obj.endTime = last.now2
           /\ last.now <= last.now2
           /\ last.now2 <= clock
           /\ last.upd = "final"
           /\ last.updateOk =>
                /\ chaos.phase = ExperimentPhasePaused
                /\ chaos.endTime = last.now2

C5_Witness ==
    /\ Ran /\ ~last.pre.deleted /\ last.pre.paused
    /\ last.pre.phase = ExperimentPhaseRunning
    /\ last.recoverOk /\ Stored
    /\ chaos.phase = ExperimentPhasePaused
    /\ chaos.endTime > last.pre.endTime

\* C6 as stated: a non-deleted resource that carries the pause annotation
\* but whose phase is not Running is not moved to Paused by the pause step
\* and is handled by one of the later schedule steps.
C6_AsStated ==
    (Ran /\ ~last.pre.deleted /\ last.pre.paused
         /\ last.pre.phase \notin {ExperimentPhaseRunning,
                                   ExperimentPhasePaused}) =>
      /\ last.obj.phase # ExperimentPhasePaused
      /\ last.step \in {"recover", "resume", "start", "requeue"}

\* C6 amended: the pause step takes every non-deleted resource that carries
\* the pause annotation, whatever its phase; only the Recover call (and the
\* endTime and duration it records) is limited to phase Running.  A resource
\* whose phase is not Running is set to Paused without Recover or Apply,
\* nothing else on it changes, and no later schedule step runs.
C6_PauseStepAnyPhase ==
    (Ran /\ ~last.pre.deleted /\ last.pre.paused) =>
      /\ last.step = "pause"
      /\ ~last.applyCalled
      /\ last.recoverCalled <=> (last.pre.phase = ExperimentPhaseRunning)
      /\ last.pre.phase # ExperimentPhaseRunning =>
           /\ last.obj = [last.pre EXCEPT !.phase = ExperimentPhasePaused]
           /\ last.upd = "final"
           /\ last.updateOk =>
                /\ chaos.phase = ExperimentPhasePaused
                /\ chaos.nextStart = last.pre.nextStart
                /\ chaos.nextRecover = last.pre.nextRecover

C6_Witness ==
    /\ Ran /\ ~last.pre.deleted /\ last.pre.paused
    /\ last.pre.phase = ExperimentPhaseWaiting
    /\ Before(last.pre.nextStart, last.now)
    /\ Stored
    /\ chaos.phase = ExperimentPhasePaused

\* C7 as stated: when nextRecover is set and nextRecover <= now on a
\* resource that is neither deleted nor paused, Recover is called unless the
\* phase is Paused, and after a successful step nextRecover is cleared and
\* the phase is Waiting.
C7_AsStated ==
    (Ran /\ ~last.pre.deleted /\ ~last.pre.paused
         /\ ~IsZero(last.pre.nextRecover)
         /\ last.pre.nextRecover <= last.now) =>
      /\ last.recoverCalled <=> (last.pre.phase # ExperimentPhasePaused)
      /\ last.err = ErrNil =>
           /\ last.obj.nextRecover = Zero
           /\ last.obj.phase = ExperimentPhaseWaiting
           /\ chaos.nextRecover = Zero
           /\ chaos.phase = ExperimentPhaseWaiting

\* C8: on a non-deleted resource whose phase is Paused, whose pause
\* annotation is no longer true and whose nextRecover is after now, the
\* reconcile calls Apply (not Recover) with the remaining duration
\* nextRecover - now and leaves nextStart and nextRecover unchanged; when
\* Apply succeeds the phase is Running and the recorded duration is the
\* remaining one.
C8_ResumeWithRemainingDuration ==
    (Ran /\ ~last.pre.deleted /\ ~last.pre.paused
         /\ last.pre.phase = ExperimentPhasePaused
         /\ ~IsZero(last.pre.nextRecover)
         /\ last.pre.nextRecover > last.now) =>
      /\ last.applyCalled
      /\ ~last.recoverCalled
      /\ last.applyDur = last.pre.nextRecover - last.now
      /\ last.obj.nextStart = last.pre.nextStart
      /\ last.obj.nextRecover = last.pre.nextRecover
      /\ chaos.nextStart = last.pre.nextStart
      /\ chaos.nextRecover = last.pre.nextRecover
      /\ last.applyOk =>
           /\ last.obj.phase = ExperimentPhaseRunning
           /\ last.obj.expDuration = last.pre.nextRecover - last.now
           /\ last.updateOk => chaos.phase = ExperimentPhaseRunning

C8_Witness ==
    /\ Ran /\ ~last.pre.deleted /\ ~last.pre.paused
    /\ last.pre.phase = ExperimentPhasePaused
    /\ last.pre.nextRecover > last.now
    /\ last.applyOk /\ Stored
    /\ chaos.phase = ExperimentPhaseRunning
    /\ last.applyDur < DurationOf(last.pre)

\* C9 as stated: when a new round is due, a successful Apply leaves the
\* resource with phase Running, startTime = now, nextStart = the next cron
\* firing after now, and nextRecover = now + duration, for the one now read
\* at the start of the reconcile.
C9_AsStated ==
    (NewRoundDue /\ last.applyCalled /\ last.applyOk) =>
      /\ last.obj.phase = ExperimentPhaseRunning
      /\ last.obj.startTime = last.now
      /\ last.obj.nextStart = NextTime(last.pre.scheduler, last.now)
      /\ last.obj.nextRecover = last.now + DurationOf(last.pre)

\* C9 amended: when a new round is due, a successful Apply leaves the
\* resource with phase Running, nextStart = the next cron firing after now
\* and nextRecover = now + duration, where now is read at the start of the
\* reconcile, and startTime = the clock reading taken after Apply returned,
\* which is not earlier than now.
C9_NewRoundStatus ==
    (NewRoundDue /\ last.applyCalled /\ last.applyOk) =>
      /\ last.obj.phase = ExperimentPhaseRunning
      /\ last.obj.startTime = last.now2
      /\ last.now <= last.now2
      /\ last.now2 <= clock
      /\ last.obj.expDuration = DurationOf(last.pre)
      /\ last.obj.nextStart = NextTime(last.pre.scheduler, last.now)
      /\ last.obj.nextRecover = last.now + DurationOf(last.pre)
      /\ last.upd = "final"
      /\ last.updateOk =>
           /\ chaos.phase = ExperimentPhaseRunning
           /\ chaos.startTime = last.now2
           /\ chaos.nextStart = last.obj.nextStart
           /\ chaos.nextRecover = last.obj.nextRecover

C9_Witness ==
    /\ NewRoundDue /\ last.applyCalled /\ last.applyOk /\ Stored
    /\ chaos.phase = ExperimentPhaseRunning
    /\ chaos.startTime > last.now
    /\ chaos.nextRecover < chaos.nextStart

\* C10: when Apply fails (in a new round or on resume), the reconcile sets
\* phase Failed and issues an Update with it, returns the Apply error with
\* Requeue set, and leaves nextStart and nextRecover as they were; the
\* stored phase is Failed once the store accepts that Update.
C10_ApplyFailure ==
    (Ran /\ last.applyCalled /\ ~last.applyOk) =>
      /\ last.obj.phase = ExperimentPhaseFailed
      /\ last.upd = "retry"
      /\ last.updateOk => chaos.phase = ExperimentPhaseFailed
      /\ last.err = ErrApply
      /\ last.requeue
      /\ last.obj.nextStart = last.pre.nextStart
      /\ last.obj.nextRecover = last.pre.nextRecover
      /\ chaos.nextStart = last.pre.nextStart
      /\ chaos.nextRecover = last.pre.nextRecover

C10_Witness ==
    /\ NewRoundDue /\ last.applyCalled /\ ~last.applyOk /\ Stored
    /\ last.err = ErrApply
    /\ chaos.phase = ExperimentPhaseFailed
    /\ IsZero(chaos.nextStart)

\* C11 as stated: whenever nextRecover is set on the stored resource,
\* nextRecover minus the recorded startTime equals the configured duration,
\* also after a pause and resume within the round.
C11_AsStated ==
    ~IsZero(chaos.nextRecover) =>
      chaos.nextRecover - chaos.startTime = DurationOf(chaos)

\* C11 amended: nextRecover is measured from the now read at the start of
\* the reconcile, startTime from the clock reading after Apply returned.
\* After a successful Apply, nextRecover - now equals the duration handed to
\* Apply and recorded on the status (the configured duration in a new round,
\* the remaining duration nextRecover - now on resume) and startTime is not
\* earlier than now; so whenever nextRecover is set, startTime is set and
\* nextRecover - startTime is at most the configured duration.
C11_RecoverMeasuredFromNow ==
    /\ (Ran /\ last.applyCalled /\ last.applyOk) =>
         /\ last.obj.nextRecover - last.now = last.applyDur
         /\ last.obj.expDuration = last.applyDur
         /\ last.obj.startTime = last.now2
         /\ last.now <= last.now2
         /\ last.step = "start" => last.applyDur = DurationOf(last.pre)
         /\ last.step = "resume" =>
              /\ last.obj.nextRecover = last.pre.nextRecover
              /\ last.applyDur = last.pre.nextRecover - last.now
    /\ ~IsZero(chaos.nextRecover) =>
         /\ ~IsZero(chaos.startTime)
         /\ chaos.nextRecover - chaos.startTime <= DurationOf(chaos)

C11_Witness ==
    /\ last.step = "resume"
    /\ last.applyOk /\ Stored
    /\ chaos.nextRecover - last.now = chaos.expDuration
    /\ chaos.nextRecover - chaos.startTime < DurationOf(chaos)

\* ======================================================================
\* Per-kind injectors: Apply and Recover of the InnerReconciler, the
\* finalizer list they keep on the resource, and the target pods.
\* ======================================================================
Pods == 1..MaxPods

KindNetem == "netem"
KindChains == "partition-chains"
KindPartition == "partition"
KindTrafficControl == "trafficcontrol"
KindIo == "iochaos"
KindKernel == "kernelchaos"
KindTime == "timechaos"
KindPodFailure == "podfailure"

\* kinds that select one list of pods / kinds with sources, targets, direction
PodKinds == {KindNetem, KindIo, KindKernel, KindTime, KindPodFailure}

DirectedKinds == {KindChains, KindPartition, KindTrafficControl}

Kinds == PodKinds \cup DirectedKinds

To == "to"
From == "from"
Both == "both"
Directions == {To, From, Both}

\* a finalizer is <<prefix, pod>>: the pod key, for the partition kind behind
\* a six-character direction prefix
NoPrefix == ""
InputPrefix == "input-"
OutputPrefix == "output"

PodKey(pod) == <<NoPrefix, pod>>

\* utils.InsertFinalizer: append the key unless it is already listed
InsertFinalizer(finalizers, key) ==
    IF \E i \in 1..Len(finalizers) : finalizers[i] = key
    THEN finalizers
    ELSE Append(finalizers, key)

\* utils.RemoveFromFinalizer: the list without the key
RemoveFromFinalizer(finalizers, key) ==
    SelectSeq(finalizers, LAMBDA f : f # key)

\* a set of pods as the list a selection returns (ascending)
RECURSIVE SeqOf(_)
SeqOf(S) ==
    IF S = {} THEN <<>>
    ELSE LET m == CHOOSE x \in S : \A y \in S : x <= y
         IN  <<m>> \o SeqOf(S \ {m})

\* utils.SelectAndFilterPods: the pods of the selector that exist
SelectAndFilterPods(selector, ps) ==
    SeqOf({p \in selector : ps[p].exists})

\* what another network-chaos resource has installed on a pod through a
\* direct call (its netem qdisc)
OtherRule == "other"

\* a pod this resource injected nothing into; it carries the netem qdisc and
\* the aggregate item of another resource
FreshPod ==
    [exists |-> TRUE, rules |-> {OtherRule}, ipset |-> FALSE,
     aggregate |-> <<[source |-> SourceOther, item |-> "tc"]>>]

\* a pod that was deleted; its aggregate is collected with it
GonePod ==
    [exists |-> FALSE, rules |-> {}, ipset |-> FALSE, aggregate |-> <<>>]

\* ---- the progress of one Apply or Recover call ----
\* fin: chaos.Finalizers in memory; pods: the targets; trace: finalizer
\* insertions and remote calls in the order they are issued; failed: keys
\* whose remote call failed; missing: keys whose pod was not found; errs:
\* what the returned error holds (<<>> = nil); records:
\* status.experiment.podRecords
NewRun(c, ps) ==
    [fin |-> c.finalizers, pods |-> ps, trace |-> <<>>, failed |-> {},
     missing |-> {}, errs |-> <<>>, records |-> c.records]

\* one remote call that installs the rule `prefix` on the pod (SetNetem,
\* SetIptablesChains, FlushIptables, the kernel, time and image calls)
RemoteApply(st, pod, prefix, ok) ==
    [st EXCEPT !.trace = Append(@, <<"rpc", pod>>),
               !.pods[pod].rules = IF ok THEN @ \cup {prefix} ELSE @,
               !.failed = IF ok THEN @ ELSE @ \cup {<<prefix, pod>>}]

\* g.Wait(): the first error of the group, nil when no call failed
Wait(st) ==
    IF st.failed = {} THEN st
    ELSE [st EXCEPT !.errs = <<CHOOSE k \in st.failed : TRUE>>]

\* one iteration of applyAllPods (netem; kernelchaos, timechaos and the
\* failAllPods of podfailure are the same loop): InsertFinalizer, then
\* g.Go(applyPod).  The call is recorded where it is started.
applyAllPodsStep(st, pod, okRpc) ==
    LET st1 == [st EXCEPT !.fin = InsertFinalizer(@, PodKey(pod)),
                          !.trace = Append(@, <<"finalizer", pod>>)]
    IN  RemoteApply(st1, pod, NoPrefix, pod \in okRpc)

RECURSIVE applyAllPodsLoop(_, _, _)
applyAllPodsLoop(st, targets, okRpc) ==
    IF targets = <<>> THEN st
    ELSE applyAllPodsLoop(applyAllPodsStep(st, Head(targets), okRpc),
                          Tail(targets), okRpc)

applyAllPods(st, targets, okRpc) == Wait(applyAllPodsLoop(st, targets, okRpc))

\* ---- partition: ipsets first, then the chains / rules ----
\* one goroutine of the ipset fan-out: FlushIPSets on the pod
FlushIPSetsStep(st, pod, okFlush) ==
    [st EXCEPT !.trace = Append(@, <<"rpc", pod>>),
               !.pods[pod].ipset = IF pod \in okFlush THEN TRUE ELSE @,
               !.failed = IF pod \in okFlush THEN @
                          ELSE @ \cup {PodKey(pod)}]

RECURSIVE FlushIPSetsLoop(_, _, _)
FlushIPSetsLoop(st, allPods, okFlush) ==
    IF allPods = <<>> THEN st
    ELSE FlushIPSetsLoop(FlushIPSetsStep(st, Head(allPods), okFlush),
                         Tail(allPods), okFlush)

FlushIPSets(st, allPods, okFlush) ==
    Wait(FlushIPSetsLoop(st, allPods, okFlush))

\* one iteration of SetChains: InsertFinalizer(key), g.Go(SetIptablesChains)
SetChainsStep(st, pod, okRpc) ==
    LET st1 == [st EXCEPT !.fin = InsertFinalizer(@, PodKey(pod)),
                          !.trace = Append(@, <<"finalizer", pod>>)]
    IN  RemoteApply(st1, pod, NoPrefix, pod \in okRpc)

RECURSIVE SetChainsLoop(_, _, _)
SetChainsLoop(st, ps, okRpc) ==
    IF ps = <<>> THEN st
    ELSE SetChainsLoop(SetChainsStep(st, Head(ps), okRpc), Tail(ps), okRpc)

SetChains(st, ps, okRpc) == Wait(SetChainsLoop(st, ps, okRpc))

\* Reconciler.Apply of controllers/reconciler/types.go
chainsApply(st, sources, targets, okFlush, okRpc) ==
    LET allPods == sources \o targets
        f == FlushIPSets(st, allPods, okFlush)
        s1 == SetChains(f, sources, okRpc)
        s2 == SetChains(s1, targets, okRpc)
    IN  IF f.errs # <<>> THEN f
        ELSE IF s1.errs # <<>> THEN s1
        ELSE IF s2.errs # <<>> THEN s2
        ELSE [s2 EXCEPT !.records = allPods]

\* variant: one plain pod key whatever the direction
BlockSetStep_PlainKey(st, pod, prefix, okRpc) ==
    LET st1 == [st EXCEPT !.fin = InsertFinalizer(@, PodKey(pod)),
                          !.trace = Append(@, <<"finalizer", pod>>)]
    IN  RemoteApply(st1, pod, prefix, pod \in okRpc)

\* one iteration of BlockSet: InsertFinalizer("input-"+key or "output"+key),
\* g.Go(FlushIptables)
BlockSetStep(st, pod, prefix, okRpc) ==
    LET st1 == [st EXCEPT !.fin = InsertFinalizer(@, <<prefix, pod>>),
                          !.trace = Append(@, <<"finalizer", pod>>)]
    IN  RemoteApply(st1, pod, prefix, pod \in okRpc)

RECURSIVE BlockSetLoop(_, _, _, _)
BlockSetLoop(st, ps, prefix, okRpc) ==
    IF ps = <<>> THEN st
    ELSE BlockSetLoop(BlockSetStep(st, Head(ps), prefix, okRpc),
                      Tail(ps), prefix, okRpc)

BlockSet(st, ps, prefix, okRpc) == Wait(BlockSetLoop(st, ps, prefix, okRpc))

\* Reconciler.Apply of controllers/networkchaos/partition/types.go
partitionApply(st, direction, sources, targets, okFlush, okRpc) ==
    LET allPods == sources \o targets
        f == FlushIPSets(st, allPods, okFlush)
        toward == direction \in {To, Both}
        back == direction \in {From, Both}
        a1 == IF toward THEN BlockSet(f, sources, OutputPrefix, okRpc) ELSE f
        a2 == IF toward THEN BlockSet(a1, targets, InputPrefix, okRpc) ELSE a1
        b1 == IF back THEN BlockSet(a2, sources, InputPrefix, okRpc) ELSE a2
        b2 == IF back THEN BlockSet(b1, targets, OutputPrefix, okRpc) ELSE b1
    IN  IF f.errs # <<>> THEN f
        ELSE IF a1.errs # <<>> THEN a1
        ELSE IF a2.errs # <<>> THEN a2
        ELSE IF b1.errs # <<>> THEN b1
        ELSE IF b2.errs # <<>> THEN b2
        ELSE [b2 EXCEPT !.records = allPods]

\* ---- the per-pod aggregate and its manager (podnetworkmanager,
\* podiochaosmanager) ----
\* mods: pod -> the items appended to that pod's transaction
Item(kind) == [source |-> SourceSelf, item |-> kind]

\* WithInit: the pod's transaction, created (starting with a clear of this
\* source) when the manager has none for the pod yet
WithInit(mods, pod) ==
    IF pod \in DOMAIN mods THEN mods ELSE mods @@ (pod :> <<>>)

TxnAppend(mods, pod, item) == [mods EXCEPT ![pod] = Append(@, item)]

\* variant: the items of this source are not dropped before the append
Rewrite_NoClear(aggregate, items) == aggregate \o items

\* what a commit writes: every item of this source dropped, the fresh
\* items appended, the items of other sources kept
Rewrite(aggregate, items) ==
    SelectSeq(aggregate, LAMBDA it : it.source # SourceSelf) \o items

\* the commit of one pod's transaction: a remote update of its aggregate
CommitStep(st, mods, pod, okRpc) ==
    LET found == st.pods[pod].exists
        ok == found /\ pod \in okRpc
    IN  [st EXCEPT !.trace = Append(@, <<"rpc", pod>>),
                   !.pods[pod].aggregate =
                       IF ok THEN Rewrite(@, mods[pod]) ELSE @,
                   !.failed = IF ok THEN @ ELSE @ \cup {PodKey(pod)},
                   !.missing = IF found THEN @ ELSE @ \cup {PodKey(pod)}]

RECURSIVE CommitLoop(_, _, _, _)
CommitLoop(st, mods, order, okRpc) ==
    IF order = <<>> THEN st
    ELSE CommitLoop(CommitStep(st, mods, Head(order), okRpc),
                    mods, Tail(order), okRpc)

Commit(st, mods, okRpc) ==
    Wait(CommitLoop(st, mods, SeqOf(DOMAIN mods), okRpc))

\* ---- trafficcontrol ----
RECURSIVE InsertAll(_, _)
InsertAll(st, ps) ==
    IF ps = <<>> THEN st
    ELSE InsertAll([st EXCEPT !.fin = InsertFinalizer(@, PodKey(Head(ps))),
                              !.trace = Append(@, <<"finalizer", Head(ps)>>)],
                   Tail(ps))

RECURSIVE AppendAll(_, _, _)
AppendAll(mods, ps, filtered) ==
    IF ps = <<>> THEN mods
    ELSE LET m1 == WithInit(mods, Head(ps))
             m2 == IF filtered
                   THEN TxnAppend(m1, Head(ps), Item("ipset"))
                   ELSE m1
         IN  AppendAll(TxnAppend(m2, Head(ps), Item("tc")), Tail(ps), filtered)

\* applyTc: finalizers for the sources, then one transaction per source
applyTc(st, mods, sources, targets) ==
    [run |-> InsertAll(st, sources),
     mods |-> AppendAll(mods, sources, targets # <<>>)]

\* Reconciler.Apply of the trafficcontrol reconciler
tcApply(st, direction, sources, targets, okRpc) ==
    LET ps == sources \o targets
        t == IF direction = To THEN applyTc(st, <<>>, sources, targets)
             ELSE IF direction = From THEN applyTc(st, <<>>, targets, sources)
             ELSE applyTc(st, <<>>, ps, ps)
        c == Commit(t.run, t.mods, okRpc)
    IN  IF c.errs # <<>> THEN c ELSE [c EXCEPT !.records = ps]

\* ---- iochaos ----
RECURSIVE ioLoop(_, _)
ioLoop(t, ps) ==
    IF ps = <<>> THEN t
    ELSE LET pod == Head(ps)
             mods == TxnAppend(WithInit(t.mods, pod), pod, Item("io"))
             run == [t.run EXCEPT
                        !.fin = InsertFinalizer(@, PodKey(pod)),
                        !.trace = Append(@, <<"finalizer", pod>>)]
         IN  ioLoop([run |-> run, mods |-> mods], Tail(ps))

\* endpoint.Apply of iochaos
ioApply(st, ps, okRpc) ==
    LET t == ioLoop([run |-> st, mods |-> <<>>], ps)
        c == Commit(t.run, t.mods, okRpc)
    IN  IF c.errs # <<>> THEN c ELSE [c EXCEPT !.records = ps]

\* ---- Apply of the kind of the resource ----
Apply(c, ps, okFlush, okRpc) ==
    LET st == NewRun(c, ps)
        sources == SelectAndFilterPods(c.sources, ps)
        targets == SelectAndFilterPods(c.targets, ps)
    IN  IF c.kind = KindChains
        THEN chainsApply(st, sources, targets, okFlush, okRpc)
        ELSE IF c.kind = KindPartition
        THEN partitionApply(st, c.direction, sources, targets, okFlush, okRpc)
        ELSE IF c.kind = KindTrafficControl
        THEN tcApply(st, c.direction, sources, targets, okRpc)
        ELSE IF c.kind = KindIo
        THEN ioApply(st, sources, okRpc)
        ELSE LET a == applyAllPods(st, sources, okRpc)
             IN  IF a.errs # <<>> THEN a ELSE [a EXCEPT !.records = sources]

\* the node agent's DeleteNetem: the request carries the container id and
\* Netem: nil, nothing that names a resource; the netem qdisc of the pod is
\* removed, whoever installed it
DeleteNetem(pr) == [pr EXCEPT !.rules = {}]

\* ---- Recover ----
\* the cleanup call on one pod: podfailure deletes the pod (grace period 0),
\* the other kinds take their rule off it
recoverPod(kind, pr, prefix) ==
    IF kind = KindPodFailure THEN GonePod
    ELSE IF kind = KindNetem THEN DeleteNetem(pr)
    ELSE [pr EXCEPT !.rules = @ \ {prefix}]

\* one iteration of the loop of cleanFinalizersAndRecover: a pod that is not
\* found loses its finalizer, a failed Get or cleanup call is added to the
\* result and the finalizer stays, a successful call removes the finalizer
cleanStep(kind, st, key, okRpc) ==
    LET pod == key[2] IN
    IF ~st.pods[pod].exists
    THEN [st EXCEPT !.fin = RemoveFromFinalizer(@, key),
                    !.missing = @ \cup {key}]
    ELSE IF pod \notin okRpc
    THEN [st EXCEPT !.trace = Append(@, <<"rpc", pod>>),
                    !.failed = @ \cup {key},
                    !.errs = Append(@, key)]
    ELSE [st EXCEPT !.trace = Append(@, <<"rpc", pod>>),
                    !.pods[pod] = recoverPod(kind, @, key[1]),
                    !.fin = RemoveFromFinalizer(@, key)]

\* the annotation chaos-mesh.org/cleanFinalizer = forced: the list is
\* emptied and nil is returned
ForcedOverride(c, st) ==
    IF c.forced THEN [st EXCEPT !.fin = <<>>, !.errs = <<>>] ELSE st

\* the loop that goes on after an error (multierror.Append, continue)
RECURSIVE cleanLoop(_, _, _, _)
cleanLoop(kind, st, keys, okRpc) ==
    IF keys = <<>> THEN st
    ELSE cleanLoop(kind, cleanStep(kind, st, Head(keys), okRpc),
                   Tail(keys), okRpc)

\* cleanFinalizersAndRecover of partition (both files), kernelchaos,
\* timechaos and podfailure
cleanFinalizersAndRecover(c, st, okRpc) ==
    ForcedOverride(c, cleanLoop(c.kind, st, c.finalizers, okRpc))

\* the loop of netem: the first error is returned at once
RECURSIVE netemCleanLoop(_, _, _)
netemCleanLoop(st, keys, okRpc) ==
    IF keys = <<>> \/ st.errs # <<>> THEN st
    ELSE netemCleanLoop(cleanStep(KindNetem, st, Head(keys), okRpc),
                        Tail(keys), okRpc)

\* cleanFinalizersAndRecover of netem; it does not read the annotation
netemCleanFinalizersAndRecover(c, st, okRpc) ==
    IF Len(c.finalizers) = 0 THEN st
    ELSE netemCleanLoop(st, c.finalizers, okRpc)

\* the loop of trafficcontrol: one manager for the whole loop; the error of
\* Commit is only logged and the finalizer is removed
RECURSIVE tcCleanLoop(_, _, _, _)
tcCleanLoop(st, mods, keys, okRpc) ==
    IF keys = <<>> THEN st
    ELSE LET key == Head(keys)
             m1 == WithInit(mods, key[2])
             c == CommitLoop(st, m1, SeqOf(DOMAIN m1), okRpc)
         IN  tcCleanLoop([c EXCEPT !.fin = RemoveFromFinalizer(@, key)],
                         m1, Tail(keys), okRpc)

tcCleanFinalizersAndRecover(c, st, okRpc) ==
    ForcedOverride(c, tcCleanLoop(st, <<>>, c.finalizers, okRpc))

\* the loop of iochaos: a new manager for every key; the error of Commit is
\* only logged and the finalizer is removed
RECURSIVE ioCleanLoop(_, _, _)
ioCleanLoop(st, keys, okRpc) ==
    IF keys = <<>> THEN st
    ELSE LET key == Head(keys)
             m1 == WithInit(<<>>, key[2])
             c == CommitLoop(st, m1, SeqOf(DOMAIN m1), okRpc)
         IN  ioCleanLoop([c EXCEPT !.fin = RemoveFromFinalizer(@, key)],
                         Tail(keys), okRpc)

ioCleanFinalizersAndRecover(c, st, okRpc) ==
    ForcedOverride(c, ioCleanLoop(st, c.finalizers, okRpc))

\* ---- Recover of the kind of the resource ----
Recover(c, ps, okRpc) ==
    LET st == NewRun(c, ps)
    IN  IF c.kind = KindNetem
        THEN netemCleanFinalizersAndRecover(c, st, okRpc)
        ELSE IF c.kind = KindTrafficControl
        THEN tcCleanFinalizersAndRecover(c, st, okRpc)
        ELSE IF c.kind = KindIo
        THEN ioCleanFinalizersAndRecover(c, st, okRpc)
        ELSE cleanFinalizersAndRecover(c, st, okRpc)

\* ---- the two-phase reconciler driving an injector ----
\* The resource carries a schedule whose period lies beyond MaxTime, so one
\* round is followed: Apply (and its retries), Recover when the duration is
\* over, and the deletion.  Each run takes the branch Step gives for the time
\* it runs at, which is the earliest time from the last run on at which that
\* branch is due.  The pause annotation is left out here.
InjPeriod == MaxTime + 2
InjDuration == 1

NewInjChaos(kind, direction, sources, targets) ==
    NewChaos(InjPeriod, InjDuration) @@
    [kind |-> kind, direction |-> direction,
     sources |-> sources, targets |-> targets,
     forced |-> FALSE, finalizers |-> <<>>, records |-> <<>>]

\* a resource marked deleted that holds no finalizer is removed by the
\* store: r.Get no longer finds it
Gone(c) == c.deleted /\ c.finalizers = <<>>

\* what the last run did: the branch; the finalizers and the annotation it
\* read; the finalizers and the phase of the object in memory when it ended;
\* the trace, the failed and missing keys and the error of its Apply or
\* Recover; the pods a remote call changed; the Update.
NoInjRun(c) ==
    [step |-> "none", preFin |-> c.finalizers, forced |-> c.forced,
     fin |-> c.finalizers, phase |-> c.phase,
     trace |-> <<>>, failed |-> {}, missing |-> {}, errs |-> <<>>,
     touched |-> {},
     err |-> ErrNil, requeue |-> FALSE,
     upd |-> "none", updateOk |-> TRUE]

\* the end of a run: the Update, the pods as the remote calls left them
InjFinish(step, now, run, o, updateOk) ==
    /\ res' = IF o.upd # "none" /\ updateOk THEN o.obj ELSE res
    /\ pods' = run.pods
    /\ clock' = now
    /\ ilast' = [step |-> step,
                 preFin |-> res.finalizers, forced |-> res.forced,
                 fin |-> o.obj.finalizers, phase |-> o.obj.phase,
                 trace |-> run.trace, failed |-> run.failed,
                 missing |-> run.missing, errs |-> run.errs,
                 touched |-> {p \in Pods : run.pods[p] # pods[p]},
                 err |-> IF o.upd = "final" /\ ~updateOk THEN ErrUpdate
                         ELSE o.err,
                 requeue |-> o.requeue,
                 upd |-> o.upd, updateOk |-> updateOk]
    /\ UNCHANGED <<chaos, last>>
    /\ UNCHANGED aggVars
    /\ UNCHANGED restVars
    /\ UNCHANGED daemonVars

\* the object in memory after Apply or Recover changed its finalizers and
\* pod records
InMemory(c, run) == [c EXCEPT !.finalizers = run.fin, !.records = run.records]

\* the user deletes the resource
InjDelete ==
    /\ ~res.deleted
    /\ res' = [res EXCEPT !.deleted = TRUE]
    /\ UNCHANGED <<clock, chaos, last, pods, ilast>>
    /\ UNCHANGED aggVars
    /\ UNCHANGED restVars
    /\ UNCHANGED daemonVars

\* the user sets the annotation chaos-mesh.org/cleanFinalizer to forced, to
\* release a resource whose deletion is held up
InjForce ==
    /\ ~Gone(res)
    /\ res.deleted
    /\ ~res.forced
    /\ res' = [res EXCEPT !.forced = TRUE]
    /\ UNCHANGED <<clock, chaos, last, pods, ilast>>
    /\ UNCHANGED aggVars
    /\ UNCHANGED restVars
    /\ UNCHANGED daemonVars

\* a target pod is removed from the cluster; at most MaxGone pods are missing
\* when one is removed
PodGone ==
    \E p \in Pods :
      /\ Cardinality({q \in Pods : ~pods[q].exists}) < MaxGone
      /\ pods[p].exists
      /\ pods' = [pods EXCEPT ![p] = GonePod]
      /\ UNCHANGED <<clock, chaos, last, res, ilast>>
      /\ UNCHANGED aggVars
      /\ UNCHANGED restVars
      /\ UNCHANGED daemonVars

\* the owner of a pod that the Recover of podfailure deleted creates it
\* again under the same name
PodRecreated ==
    \E p \in Pods :
      /\ res.kind = KindPodFailure
      /\ ~pods[p].exists
      /\ pods' = [pods EXCEPT ![p] = FreshPod]
      /\ UNCHANGED <<clock, chaos, last, res, ilast>>
      /\ UNCHANGED aggVars
      /\ UNCHANGED restVars
      /\ UNCHANGED daemonVars

\* the pods that hold a finalizer in the list
Holders(finalizers) == {finalizers[i][2] : i \in 1..Len(finalizers)}

\* the pods that the remote calls of a run can reach: those of the set that
\* exist.  The outcome of a call is drawn for these pods only.
Reached(S) == {p \in S : pods[p].exists}

\* Reconcile, deleted branch, with the Recover of the kind
InjReconcileDeleted ==
    /\ ~Gone(res)
    /\ \E now \in clock..MaxTime :
         /\ \A t \in clock..(now - 1) : Step(res, t) # Step(res, now)
         /\ Step(res, now) = "delete"
         /\ \E okRpc \in SUBSET Reached(Holders(res.finalizers)) :
              LET run == Recover(res, pods, okRpc)
                  o == deletedBranch(InMemory(res, run), run.errs = <<>>)
              IN  \E updateOk \in Accepts(o) :
                    InjFinish("delete", now, run, o, updateOk)

\* Reconcile, recover branch, with the Recover of the kind
InjReconcileRecover ==
    /\ ~Gone(res)
    /\ \E now \in clock..MaxTime :
         /\ \A t \in clock..(now - 1) : Step(res, t) # Step(res, now)
         /\ Step(res, now) = "recover"
         /\ \E okRpc \in SUBSET Reached(Holders(res.finalizers)) :
              LET run == IF res.phase # ExperimentPhasePaused
                         THEN Recover(res, pods, okRpc)
                         ELSE NewRun(res, pods)
                  o == recoverBranch(InMemory(res, run), run.errs = <<>>, now)
              IN  \E updateOk \in Accepts(o) :
                    InjFinish("recover", now, run, o, updateOk)

\* Reconcile, new-round branch, with the Apply of the kind
InjReconcileStart ==
    /\ ~Gone(res)
    /\ \E now \in clock..MaxTime :
         /\ \A t \in clock..(now - 1) : Step(res, t) # Step(res, now)
         /\ Step(res, now) = "start"
         /\ \E okFlush \in (IF res.kind \in {KindChains, KindPartition}
                            THEN SUBSET Reached(res.sources \cup res.targets)
                            ELSE {Reached(res.sources \cup res.targets)}) :
            \E okRpc \in (IF okFlush = Reached(res.sources \cup res.targets)
                          THEN SUBSET Reached(res.sources \cup res.targets)
                          ELSE {okFlush}) :
              LET tight == TooTight(NextTime(res.scheduler, now),
                                    now + DurationOf(res))
                  run == IF tight THEN NewRun(res, pods)
                         ELSE Apply(res, pods, okFlush, okRpc)
                  o == startBranch(InMemory(res, run), now, run.errs = <<>>, now)
              IN  \E updateOk \in Accepts(o) :
                    InjFinish("start", now, run, o, updateOk)

\* the selectors of a resource: a pod-scoped kind selects every pod; a
\* directed kind selects pod 1 as source and no target, the other pods, or
\* every pod (overlapping the source)
Selectors(kind) ==
    IF kind \in DirectedKinds
    THEN {<<{1}, {}>>, <<{1}, Pods \ {1}>>, <<{1}, Pods>>}
    ELSE {<<Pods, {}>>}

InitInj ==
    /\ clock = 1
    /\ chaos = NewChaos(NoScheduler, NilDuration)
    /\ last = NoRun(chaos)
    /\ pods = [p \in Pods |-> FreshPod]
    /\ \E kind \in Kinds :
       \E sel \in Selectors(kind) :
       \E direction \in (IF kind \in {KindPartition, KindTrafficControl}
                         THEN Directions ELSE {To}) :
         res = NewInjChaos(kind, direction, sel[1], sel[2])
    /\ ilast = NoInjRun(res)
    /\ AggInit
    /\ RestInit
    /\ DaemonInit

NextInj ==
    \/ InjDelete
    \/ InjForce
    \/ PodGone
    \/ PodRecreated
    \/ InjReconcileDeleted
    \/ InjReconcileRecover
    \/ InjReconcileStart

SpecInj == InitInj /\ [][NextInj]_vars

\* ======================================================================
\* Claims about the injectors
\* ======================================================================
\* a run of Apply / of Recover that made at least one step
InjApplied == ilast.step = "start" /\ ilast.trace # <<>>

InjRecovered == ilast.step \in {"delete", "recover"}

\* C13 (as stated): in every Apply, each remote call on a target is started
\* only when the resource already lists a finalizer of that target, from an
\* earlier run or inserted earlier in this one.  The partition Apply calls
\* FlushIPSets on every pod before any finalizer is inserted.
C13_AsStated ==
    InjApplied =>
      \A i \in 1..Len(ilast.trace) :
        ilast.trace[i][1] = "rpc" =>
          \/ ilast.trace[i][2] \in Holders(ilast.preFin)
          \/ \E j \in 1..(i - 1) :
               ilast.trace[j] = <<"finalizer", ilast.trace[i][2]>>

\* C14 (as stated): after a Recover that ran without the forced override, a
\* key whose cleanup call failed on a pod that exists is still in the
\* finalizer list, and a key that left the list belongs to a pod that was
\* not found or whose cleanup call did not fail.  trafficcontrol and iochaos
\* only log the error of Commit and remove the finalizer.
C14_AsStated ==
    (InjRecovered /\ ~ilast.forced) =>
      /\ \A key \in ilast.failed \ ilast.missing :
           \E i \in 1..Len(ilast.fin) : ilast.fin[i] = key
      /\ \A i \in 1..Len(ilast.preFin) :
           (\A j \in 1..Len(ilast.fin) : ilast.fin[j] # ilast.preFin[i])
             => \/ ilast.preFin[i] \in ilast.missing
                \/ ilast.preFin[i] \notin ilast.failed

\* C15 (as stated): a Recover that ran without the forced override started a
\* cleanup call on every pod that the finalizers listed and that was found,
\* and the error it returned holds every failed key.  The Recover of netem
\* returns at the first error; those of trafficcontrol and iochaos return
\* nil (C14).
C15_AsStated ==
    (InjRecovered /\ ~ilast.forced) =>
      /\ \A i \in 1..Len(ilast.preFin) :
           ilast.preFin[i] \notin ilast.missing =>
             \E j \in 1..Len(ilast.trace) :
               ilast.trace[j] = <<"rpc", ilast.preFin[i][2]>>
      /\ \A key \in ilast.failed \ ilast.missing :
           \E i \in 1..Len(ilast.errs) : ilast.errs[i] = key

\* the keys of a finalizer list
Keys(finalizers) == {finalizers[i] : i \in 1..Len(finalizers)}

\* C16 (as stated): after a Recover that returned an error, the stored
\* resource no longer lists the keys whose cleanup succeeded (those the run
\* removed in memory), still lists the failed keys, and is not released.
\* Reconcile returns on the error of Recover without an Update, so the
\* stored list is the one from before the run.
C16_AsStated ==
    (InjRecovered /\ ilast.errs # <<>>) =>
      /\ (Keys(ilast.preFin) \ Keys(ilast.fin)) \cap Keys(res.finalizers) = {}
      /\ ilast.failed \subseteq Keys(res.finalizers)
      /\ ~Gone(res)

\* C17 (as stated): a Recover that ran on a resource carrying the forced
\* annotation ended with an empty finalizer list and returned nil.  The
\* Recover of netem never reads the annotation.
C17_AsStated ==
    (InjRecovered /\ ilast.forced) =>
      /\ ilast.fin = <<>>
      /\ ilast.errs = <<>>

\* the targets of the resource: the pods of status.experiment.podRecords
Targets(c) == {c.records[i] : i \in 1..Len(c.records)}

\* the keys that the injections of this resource in place on the pods call
\* for: one per pod and rule, the pod key for an item in the aggregate
InPlace(ps) ==
    {key \in ({NoPrefix, InputPrefix, OutputPrefix} \X Pods) :
       \/ key[1] \in ps[key[2]].rules
       \/ /\ key[1] = NoPrefix
          /\ \E i \in 1..Len(ps[key[2]].aggregate) :
               ps[key[2]].aggregate[i].source = SourceSelf}

C20_AsStated ==
    (InjRecovered /\ ilast.errs = <<>> /\ InPlace(pods) = {}) =>
      \A okRpc \in SUBSET Pods : Recover(res, pods, okRpc).pods = pods

\* the contributions of the other resource that a pod carries
OthersIntact(pr) ==
    /\ OtherRule \in pr.rules
    /\ SelectSeq(pr.aggregate, LAMBDA it : it.source # SourceSelf)
         = FreshPod.aggregate

\* C21 (as stated): whatever Apply and Recover of this resource did, every
\* pod that exists still carries the contributions of the other resource.
\* The Recover of netem calls DeleteNetem with nothing but the container id,
\* which removes the netem qdisc of the pod.
C21_AsStated ==
    \A p \in Pods : pods[p].exists => OthersIntact(pods[p])

\* the source tags of the items of an aggregate
Tags(aggregate) == {aggregate[i].source : i \in 1..Len(aggregate)}

\* the pods a trafficcontrol resource writes items for: the sources for
\* direction to, the targets for from, both for both
Referenced(c) ==
    IF c.direction = To THEN c.sources
    ELSE IF c.direction = From THEN c.targets
    ELSE c.sources \cup c.targets

\* the last run returned nil and its Update was stored
Settled == ilast.step # "none" /\ ilast.err = ErrNil /\ ilast.updateOk

\* C22 (as stated): once a run has ended without error and its Update is
\* stored, the aggregate of a pod carries the tag of the trafficcontrol
\* resource exactly when the resource is Running and references the pod (the
\* other resource is Running throughout).  A Commit that fails during
\* Recover is only logged (C14): the resource goes on to Waiting or Finished
\* and its items stay in the aggregate.
C22_AsStated ==
    (res.kind = KindTrafficControl /\ Settled) =>
      \A p \in Pods :
        pods[p].exists =>
          (SourceSelf \in Tags(pods[p].aggregate)
             <=> (res.phase = ExperimentPhaseRunning /\ p \in Referenced(res)))

\* ======================================================================
\* The per-pod aggregate under concurrent commits of two sources
\* (podnetworkmanager.Commit: read the aggregate, rewrite it, update it under
\* the resource version; a conflict is retried with a fresh read, and an
\* error of Commit makes Apply fail, so that the reconcile is requeued).
\* ======================================================================
\* what a commit on behalf of `source` writes over the aggregate it read
RewriteAs(source, aggregate, items) ==
    SelectSeq(aggregate, LAMBDA it : it.source # source) \o items

\* Apply of a source: a transaction holding its item; Recover: an empty one
AggBegin(s) ==
    /\ writer[s].pc = "idle"
    /\ writer[s].commits < MaxCommits
    /\ \E apply \in BOOLEAN :
         writer' = [writer EXCEPT
                      ![s].pc = "read",
                      ![s].items = IF apply
                                   THEN <<[source |-> s, item |-> "tc"]>>
                                   ELSE <<>>,
                      ![s].has = apply,
                      ![s].commits = @ + 1,
                      ![s].tries = 0,
                      ![s].lost = 0]
    /\ UNCHANGED <<clock, chaos, last, doc>>
    /\ UNCHANGED injVars
    /\ UNCHANGED restVars
    /\ UNCHANGED daemonVars

\* the Get of the aggregate
AggRead(s) ==
    /\ writer[s].pc = "read"
    /\ writer' = [writer EXCEPT ![s].pc = "write",
                                ![s].seen = doc.version,
                                ![s].base = doc.items]
    /\ UNCHANGED <<clock, chaos, last, doc>>
    /\ UNCHANGED injVars
    /\ UNCHANGED restVars
    /\ UNCHANGED daemonVars

\* variant: the update is written whatever the version of the aggregate is
AggWrite_Blind(s) ==
    /\ writer[s].pc = "write"
    /\ doc' = [version |-> doc.version + 1,
               items |-> RewriteAs(s, writer[s].base, writer[s].items)]
    /\ writer' = [writer EXCEPT ![s].pc = "idle"]
    /\ UNCHANGED <<clock, chaos, last>>
    /\ UNCHANGED injVars
    /\ UNCHANGED restVars
    /\ UNCHANGED daemonVars

\* the Update of the aggregate: accepted when the version is the one read;
\* on a conflict the commit starts over with a fresh read, until the retry
\* budget is used up and Commit returns the error
AggWrite(s) ==
    /\ writer[s].pc = "write"
    /\ IF writer[s].seen = doc.version
       THEN /\ doc' = [version |-> doc.version + 1,
                       items |-> RewriteAs(s, writer[s].base, writer[s].items)]
            /\ writer' = [writer EXCEPT ![s].pc = "idle"]
       ELSE /\ doc' = doc
            /\ writer' = [writer EXCEPT
                            ![s].pc = IF writer[s].tries < MaxRetry
                                      THEN "read" ELSE "failed",
                            ![s].tries = IF writer[s].tries < MaxRetry
                                         THEN @ + 1 ELSE @,
                            ![s].lost = 1]
    /\ UNCHANGED <<clock, chaos, last>>
    /\ UNCHANGED injVars
    /\ UNCHANGED restVars
    /\ UNCHANGED daemonVars

\* Commit returned an error: Apply fails, the reconcile is requeued and
\* builds the same transaction again
AggRequeue(s) ==
    /\ writer[s].pc = "failed"
    /\ writer' = [writer EXCEPT ![s].pc = "read", ![s].tries = 0]
    /\ UNCHANGED <<clock, chaos, last, doc>>
    /\ UNCHANGED injVars
    /\ UNCHANGED restVars
    /\ UNCHANGED daemonVars

NextAgg ==
    \E s \in Sources :
      \/ AggBegin(s)
      \/ AggRead(s)
      \/ AggWrite(s)
      \/ AggRequeue(s)

\* no commit is in progress; the reconciler variables stay as they are here
InitAgg ==
    /\ clock = 1
    /\ chaos = NewChaos(NoScheduler, NilDuration)
    /\ last = NoRun(chaos)
    /\ res = NewChaos(NoScheduler, NilDuration)
    /\ pods = <<>>
    /\ ilast = NoRun(res)
    /\ AggInit
    /\ RestInit
    /\ DaemonInit

SpecAgg == InitAgg /\ [][NextAgg]_vars

\* C23: a source whose commit is over finds its contribution in the
\* aggregate exactly as that commit wanted it (present after Apply, absent
\* after Recover), whatever the other source committed meanwhile; a commit
\* that lost the compare-and-set is never counted as over: it reads again or
\* returns its error to be requeued.
C23_NoLostUpdate ==
    /\ \A s \in Sources :
         (writer[s].pc = "idle" /\ writer[s].commits > 0) =>
           (s \in Tags(doc.items) <=> writer[s].has)
    /\ \A s \in Sources :
         writer[s].pc = "failed" => writer[s].tries = MaxRetry

C23_Witness ==
    /\ \A s \in Sources : writer[s].pc = "idle" /\ writer[s].has
    /\ Tags(doc.items) = Sources
    /\ \E s \in Sources : writer[s].lost = 1
    /\ doc.version = 2

\* the kinds of NetworkChaos
NetworkKinds == {KindNetem, KindChains, KindPartition, KindTrafficControl}

\* C24 (as stated): a network-chaos resource changes a pod through the
\* aggregate only: what direct node-agent calls install on a pod (rules,
\* qdiscs, ipsets) stays as it was.  netem calls SetNetem and DeleteNetem,
\* the partition reconcilers call FlushIPSets, SetIptablesChains and
\* FlushIptables themselves.
C24_AsStated ==
    res.kind \in NetworkKinds =>
      \A p \in Pods :
        pods[p].exists =>
          /\ pods[p].rules = FreshPod.rules
          /\ pods[p].ipset = FreshPod.ipset


\* ---- what the controller hands back to the work queue ----
\* TimeChaosReconciler.Reconcile: the error of the two-phase reconciler is
\* turned into an event and "return result, nil" drops it.
ControllerReconcile(run) ==
    [requeue |-> run.requeue, requeueAfter |-> run.requeueAfter,
     err |-> ErrNil]

\* the work queue runs the request again when the handler returned an
\* error, Requeue, or a positive RequeueAfter
AsksRetry(result) ==
    result.err # ErrNil \/ result.requeue \/ result.requeueAfter > 0

\* the r.Update that ends Reconcile was rejected
FinalUpdateLost == Ran /\ last.upd = "final" /\ ~last.updateOk

\* C25 (as stated): when the status update that ends a reconcile is
\* rejected, the reconcile is run again (and reads the resource afresh): the
\* controller hands the work queue a result that asks for a retry.  The
\* two-phase reconciler returns ctrl.Result{} with the error and the
\* controller replaces the error by nil, so nothing asks for the retry.
C25_AsStated ==
    FinalUpdateLost => AsksRetry(ControllerReconcile(last))


\* an Apply in which the remote call of some target failed
ApplyCallFailed == ilast.step = "start" /\ ilast.failed # {}

\* C26 (as stated): after an Apply in which the call for a target failed,
\* the stored resource lists a finalizer of that target and the run asks
\* for a requeue.  The requeue is always asked for; the finalizer is missing
\* from the stored resource when the Update of applyAction is rejected (it
\* is only logged), and when the failed call is the FlushIPSets that the
\* partition reconcilers issue before any finalizer is inserted.
C26_AsStated ==
    ApplyCallFailed =>
      /\ \A key \in ilast.failed : key[2] \in Holders(res.finalizers)
      /\ ilast.requeue


\* ======== the chaos daemon: SetTcs ========
\* pb.Tc: the ipset of the item ("" = no filter) and its type.  The type
\* only selects addNetem or addTbf, which differ in the arguments that
\* follow the handle; the items here are all netem items.
NoIpset == ""
Ipsets == {"A", "B"}
Tc_NETEM == "netem"

Tcs == [ipset : Ipsets \cup {NoIpset}, type : {Tc_NETEM}]

\* the requests: lists of at most MaxTcs items
TcsRequests == UNION {[1..n -> Tcs] : n \in 0..MaxTcs}

ErrTc == "error while adding tc"
ErrPid == "get pid from containerID error"
ErrFlush == "error while flushing client"

\* one tc command on eth0.  A qdisc (op netem, tbf, prio, sfq) hangs below
\* "parent <parent>:<class>" (parent 0 = root, class 0 = "<parent>:") and
\* has "handle <handle>:"; a filter (op filter) sits on "parent <parent>:",
\* matches the ipset and sends to "classid <parent>:<class>".  item is the
\* position in in.Tcs of the item the qdisc was made for (0 = none).
TcCmd(op, parent, class, handle, bands, item, ipset) ==
    [op |-> op, parent |-> parent, class |-> class, handle |-> handle,
     bands |-> bands, item |-> item, ipset |-> ipset]

\* globalTc: the positions of the items without ipset, in request order
globalTc(in) == SelectSeq([i \in 1..Len(in) |-> i], LAMBDA i : in[i].ipset = NoIpset)

\* filterTc: for every ipset named in the request, the positions of its
\* items in request order
filterTc(in) ==
    [s \in {in[i].ipset : i \in 1..Len(in)} \ {NoIpset} |->
       SelectSeq([i \in 1..Len(in) |-> i], LAMBDA i : in[i].ipset = s)]

\* the orders in which "range filterTc" can visit the keys of the map
RangeOrders(m) ==
    {o \in [1..Cardinality(DOMAIN m) -> DOMAIN m] :
       \A i, j \in DOMAIN o : i # j => o[i] # o[j]}

\* the first loop: the global items piped one below the other from root
globalCmds(in) ==
    LET g == globalTc(in)
    IN  [k \in 1..Len(g) |->
           TcCmd(in[g[k]].type, k - 1, 0, k, 0, g[k], NoIpset)]

\* variant: one band for every item with an ipset
prioBands_PerItem(in) ==
    3 + Cardinality({i \in 1..Len(in) : in[i].ipset # NoIpset})

\* band := 3 + len(filterTc)
prioBands(in) == 3 + Cardinality(DOMAIN filterTc(in))

\* addPrio(parent, band): the prio qdisc below the last global item and the
\* sfq qdiscs of its first three bands
addPrio(parent, band) ==
    <<TcCmd("prio", parent, 0, parent + 1, band, 0, NoIpset)>> \o
    [index \in 1..3 |->
       TcCmd("sfq", parent + 1, index, parent + 1 + index, 0, 0, NoIpset)]

\* the inner loop over the items tcs of one ipset, from position i on
\* (i counts from 0): the first hangs in band index + 4 of the prio qdisc,
\* each further one below the one before it
RECURSIVE chainCmds(_, _, _, _, _, _)
chainCmds(in, items, i, parent, index, currentHandler) ==
    IF i >= Len(items) THEN <<>>
    ELSE <<TcCmd(in[items[i + 1]].type,
                 IF i > 0 THEN currentHandler ELSE parent,
                 IF i > 0 THEN 0 ELSE index + 4,
                 currentHandler + 1, 0, items[i + 1],
                 in[items[i + 1]].ipset)>> \o
         chainCmds(in, items, i + 1, parent, index, currentHandler + 1)

\* the loop "for ipset, tcs := range filterTc" in the order the map is
\* visited, from the key at position index + 1 on: the items of the ipset,
\* then its filter
RECURSIVE filterCmds(_, _, _, _, _)
filterCmds(in, order, index, parent, currentHandler) ==
    IF index >= Len(order) THEN <<>>
    ELSE LET ipset == order[index + 1]
             items == filterTc(in)[ipset]
         IN  chainCmds(in, items, 0, parent, index, currentHandler) \o
             <<TcCmd("filter", parent, index + 4, 0, 0, 0, ipset)>> \o
             filterCmds(in, order, index + 1, parent,
                        currentHandler + Len(items))

\* variant: currentHandler starts at the last sfq handle but one
tcCommands_HandlerOff(in, order) ==
    LET parent == Len(globalTc(in))
    IN  globalCmds(in) \o addPrio(parent, prioBands(in)) \o
        filterCmds(in, order, 0, parent + 1, parent + 1 + 2)

\* every command of SetTcs after the flush, in the order it is run
tcCommands(in, order) ==
    LET parent == Len(globalTc(in))
    IN  globalCmds(in) \o addPrio(parent, prioBands(in)) \o
        filterCmds(in, order, 0, parent + 1, parent + 1 + 3)

\* the ways a SetTcs call can go: the pid lookup fails, the flush
\* "tc qdisc del dev eth0 root" fails, or the commands are run with the map
\* visited in some order and n of them succeed before one fails
TcOutcomes(in) ==
    {[pidOk |-> FALSE, flushOk |-> FALSE, order |-> <<>>, n |-> 0],
     [pidOk |-> TRUE, flushOk |-> FALSE, order |-> <<>>, n |-> 0]} \cup
    {[pidOk |-> TRUE, flushOk |-> TRUE, order |-> o, n |-> n] :
       o \in RangeOrders(filterTc(in)),
       n \in 0..(Len(globalTc(in)) + 4 + (Len(in) - Len(globalTc(in)))
                  + Cardinality(DOMAIN filterTc(in)))}

\* daemonServer.SetTcs
SetTcs ==
    \E out \in TcOutcomes(tcs) :
      LET cmds == tcCommands(tcs, out.order)
          err == IF ~out.pidOk THEN ErrPid
                 ELSE IF ~out.flushOk THEN ErrFlush
                 ELSE IF out.n < Len(cmds) THEN ErrTc ELSE ErrNil
          done == tlast.step = "SetTcs" /\ tlast.err = ErrNil
      IN  /\ eth0' = IF out.pidOk /\ out.flushOk
                      THEN SubSeq(cmds, 1, out.n) ELSE eth0
          /\ tlast' = [step |-> "SetTcs", err |-> err, order |-> out.order,
                       rebuilt |-> tlast.rebuilt \/ done,
                       before |-> IF done THEN eth0 ELSE tlast.before]
          /\ UNCHANGED <<tcs, chains, netns, plast>>
          /\ UNCHANGED <<clock, chaos, last>>
          /\ UNCHANGED injVars
          /\ UNCHANGED aggVars
          /\ UNCHANGED restVars

NextTc == SetTcs

\* the daemon receives some list of items; nothing is installed yet
InitTc ==
    /\ clock = 1
    /\ chaos = NewChaos(NoScheduler, NilDuration)
    /\ last = NoRun(chaos)
    /\ res = NewChaos(NoScheduler, NilDuration)
    /\ pods = <<>>
    /\ ilast = NoRun(res)
    /\ AggInit
    /\ RestInit
    /\ tcs \in TcsRequests
    /\ eth0 = <<>>
    /\ tlast = NoTcCall
    /\ chains = <<>>
    /\ netns = FreshNetns
    /\ plast = NoIptCall

SpecTc == InitTc /\ [][NextTc]_vars


\* the last SetTcs call ran every command and returned nil
TcDone == tlast.step = "SetTcs" /\ tlast.err = ErrNil

\* the positions of the items that carry an ipset
FilterItems(in) == {i \in 1..Len(in) : in[i].ipset # NoIpset}

\* the commands on eth0 of one kind, and the qdisc made for an item
CmdsOf(op) == {k \in 1..Len(eth0) : eth0[k].op = op}

QdiscOf(i) == eth0[CHOOSE k \in 1..Len(eth0) : eth0[k].item = i]

FilterOf(ipset) ==
    eth0[CHOOSE k \in CmdsOf("filter") : eth0[k].ipset = ipset]

\* C27 (as stated): after a successful SetTcs there is one prio qdisc, its
\* band count is 3 plus the number of items that carry an ipset, and each
\* such item hangs in a band of its own, 4 or higher, to which a filter on
\* the item's ipset sends.  Two items with the same ipset share one band.
C27_AsStated ==
    TcDone =>
      /\ Cardinality(CmdsOf("prio")) = 1
      /\ \A k \in CmdsOf("prio") :
           /\ eth0[k].bands = 3 + Cardinality(FilterItems(tcs))
           /\ \A i \in FilterItems(tcs) :
                /\ QdiscOf(i).parent = eth0[k].handle
                /\ QdiscOf(i).class >= 4
                /\ \A j \in FilterItems(tcs) \ {i} :
                     QdiscOf(j).class # QdiscOf(i).class
                /\ \E f \in CmdsOf("filter") :
                     /\ eth0[f].ipset = tcs[i].ipset
                     /\ eth0[f].parent = eth0[k].handle
                     /\ eth0[f].class = QdiscOf(i).class

\* C27 (amended): the band count is 3 plus the number of distinct ipsets of
\* the items; every such ipset has exactly one filter, the filters send to
\* the bands 4 .. bands, one band each; the first item of an ipset hangs in
\* the band of its ipset and every further item of the same ipset hangs
\* below the item of that ipset before it.
C27_BandPerIpset ==
    TcDone =>
      /\ Cardinality(CmdsOf("prio")) = 1
      /\ \A k \in CmdsOf("prio") :
           LET sets == {tcs[i].ipset : i \in FilterItems(tcs)}
           IN  /\ eth0[k].bands = 3 + Cardinality(sets)
               /\ Cardinality(CmdsOf("filter")) = Cardinality(sets)
               /\ {eth0[f].ipset : f \in CmdsOf("filter")} = sets
               /\ {eth0[f].class : f \in CmdsOf("filter")} =
                    4..eth0[k].bands
               /\ \A f \in CmdsOf("filter") : eth0[f].parent = eth0[k].handle
               /\ \A i \in FilterItems(tcs) :
                    LET before == {j \in FilterItems(tcs) :
                                     j < i /\ tcs[j].ipset = tcs[i].ipset}
                    IN  IF before = {}
                        THEN /\ QdiscOf(i).parent = eth0[k].handle
                             /\ QdiscOf(i).class = FilterOf(tcs[i].ipset).class
                        ELSE /\ QdiscOf(i).class = 0
                             /\ QdiscOf(i).parent =
                                  QdiscOf(CHOOSE j \in before :
                                            \A h \in before : h <= j).handle

\* C27 witness: a successful call for two items on ipset A and one on B
C27_Witness ==
    /\ TcDone
    /\ Len(tcs) = 3
    /\ tcs[1].ipset = "A" /\ tcs[2].ipset = "A" /\ tcs[3].ipset = "B"
    /\ Len(eth0) = 9


\* C28 (as stated): a successful SetTcs call builds the tree that the
\* successful call before it built for the same items: every item has the
\* same parent, band and handle again.  The filter loop ranges over a Go
\* map, whose order is not fixed, so with two ipsets the bands and handles
\* of their items can swap from one call to the next.
C28_AsStated ==
    (TcDone /\ tlast.rebuilt) => eth0 = tlast.before


\* ======== the chaos daemon: SetIptablesChains ========
\* pb.Chain: name, direction and the ipsets to drop.  The controllers name
\* the chain after the direction and send at most one chain per direction.
IpsetLists == {<<"A">>, <<"A", "B">>}

Chains ==
    {[name |-> GenerateName(d), direction |-> d, ipsets |-> l] :
       d \in {Chain_INPUT, Chain_OUTPUT}, l \in IpsetLists} \cup
    {[name |-> GenerateName(Chain_UNKNOWN), direction |-> Chain_UNKNOWN,
      ipsets |-> <<"A">>]}

ChainsRequests ==
    {<<>>} \cup {<<c>> : c \in Chains} \cup
    {r \in {<<c, d>> : c \in Chains, d \in Chains} :
       /\ r[1].direction # r[2].direction
       /\ Chain_UNKNOWN \notin {r[1].direction, r[2].direction}}

ErrCmd == "error code"
ErrDirection == "unknown chain direction"

\* the text of a rule as setIptablesChain formats it, split at the blanks
DropRule(name, ipset, matchPart) ==
    <<"-A", name, "-m", "set", "--match-set", ipset, matchPart,
      "-j", "DROP", "-w", "5">>

JumpRule(name, target) == <<"-A", name, "-j", target>>

\* what the namespace keeps of "iptables <rule>": "-w 5" only tells the
\* command how long to wait for the lock and is not part of the rule
Kept(rule) ==
    IF Len(rule) >= 2 /\ rule[Len(rule) - 1] = "-w"
    THEN SubSeq(rule, 1, Len(rule) - 2) ELSE rule

\* the output of "iptables -S <name>": the chain, then its rules, a line
\* each, as a sequence of words and line ends
RECURSIVE Lines(_)
Lines(rules) ==
    IF rules = <<>> THEN <<>>
    ELSE Head(rules) \o <<"\n">> \o Lines(Tail(rules))

Listing(ns, name) == <<"-N", name, "\n">> \o Lines(ns.rules[name])

\* strings.Contains(out, rule), on words
Contains(out, rule) ==
    \E k \in 0..(Len(out) - Len(rule)) :
      SubSeq(out, k + 1, k + Len(rule)) = rule

\* the state of a call: the namespace, the number of commands run so far,
\* the position of the command that fails (0 = none) and, once it has
\* failed, which kind of command that was
Bad(st) == st.n + 1 = st.fail

Ran1(st, what) ==
    [st EXCEPT !.n = @ + 1, !.hit = IF Bad(st) THEN what ELSE @]

\* the ways a call can go: the pid lookup fails (fail = -1), no command
\* fails (0), or the command at some position does
ChainsOutcomes(n) == (-1)..n

\* ensureRule: list the chain; add the rule unless the listing holds it
ensureRule(st, name, rule) ==
    IF Bad(st) THEN [st |-> Ran1(st, "-S"), err |-> ErrCmd]
    ELSE LET s1 == Ran1(st, "-S")
         IN  IF Contains(Listing(s1.ns, name), rule)
             THEN [st |-> s1, err |-> ErrNil]
             ELSE IF Bad(s1)
             THEN [st |-> Ran1(s1, "-A"), err |-> ErrCmd]
             ELSE [st |-> [Ran1(s1, "-A") EXCEPT
                             !.ns.rules[name] = Append(@, Kept(rule))],
                   err |-> ErrNil]

\* flushIptablesChain
flushIptablesChain(st, name) ==
    IF Bad(st) THEN [st |-> Ran1(st, "-F"), err |-> ErrCmd]
    ELSE [st |-> [Ran1(st, "-F") EXCEPT !.ns.rules[name] = <<>>],
          err |-> ErrNil]

\* the loop of deleteAndWriteRules over chain.Rules, from rule i on
RECURSIVE writeRules(_, _, _, _)
writeRules(st, name, rules, i) ==
    IF i > Len(rules) THEN [st |-> st, err |-> ErrNil]
    ELSE LET r == ensureRule(st, name, rules[i])
         IN  IF r.err # ErrNil THEN r
             ELSE writeRules(r.st, name, rules, i + 1)

\* variant: the chain is not flushed before its rules are written
deleteAndWriteRules_NoFlush(st, name, rules) ==
    writeRules(st, name, rules, 1)

\* deleteAndWriteRules
deleteAndWriteRules(st, name, rules) ==
    LET f == flushIptablesChain(st, name)
    IN  IF f.err # ErrNil THEN f ELSE writeRules(f.st, name, rules, 1)

\* createNewChain: "iptables -N"; a chain that exists already is as good as
\* a new one, any other failure is returned
createNewChain(st, name, rules) ==
    IF Bad(st) THEN [st |-> Ran1(st, "-N"), err |-> ErrCmd]
    ELSE deleteAndWriteRules(
           [Ran1(st, "-N") EXCEPT !.ns.exists = @ \cup {name}], name, rules)

\* setIptablesChain.  For the OUTPUT direction the result of ensureRule is
\* dropped: the err tested afterwards is the one of createNewChain, nil.
setIptablesChain(st, chain) ==
    IF chain.direction \notin {Chain_INPUT, Chain_OUTPUT}
    THEN [st |-> st, err |-> ErrDirection]
    ELSE LET matchPart == IF chain.direction = Chain_INPUT
                          THEN "src" ELSE "dst"
             rules == [i \in 1..Len(chain.ipsets) |->
                         DropRule(chain.name, chain.ipsets[i], matchPart)]
             c == createNewChain(st, chain.name, rules)
         IN  IF c.err # ErrNil THEN c
             ELSE IF chain.direction = Chain_INPUT
             THEN ensureRule(c.st, "CHAOS-INPUT",
                             JumpRule("CHAOS-INPUT", chain.name))
             ELSE [st |-> ensureRule(c.st, "CHAOS-OUTPUT",
                                     JumpRule("CHAOS-OUTPUT", chain.name)).st,
                   err |-> ErrNil]

\* setIptablesChains: the chains in request order, from chain i on, until
\* one fails
RECURSIVE setIptablesChains(_, _, _)
setIptablesChains(st, req, i) ==
    IF i > Len(req) THEN [st |-> st, err |-> ErrNil]
    ELSE LET r == setIptablesChain(st, req[i])
         IN  IF r.err # ErrNil THEN r
             ELSE setIptablesChains(r.st, req, i + 1)

\* one round of the loop of initializeEnv: the top-level chain is created
\* (and emptied), then hooked into the built-in chain; the result of that
\* ensureRule is dropped
initializeDirection(st, direction) ==
    LET chainName == "CHAOS-" \o direction
        c == createNewChain(st, chainName, <<>>)
    IN  IF c.err # ErrNil THEN c
        ELSE [st |-> ensureRule(c.st, direction,
                                JumpRule(direction, chainName)).st,
              err |-> ErrNil]

\* initializeEnv
initializeEnv(st) ==
    LET i == initializeDirection(st, "INPUT")
    IN  IF i.err # ErrNil THEN i ELSE initializeDirection(i.st, "OUTPUT")

\* the body of SetIptablesChains after the pid lookup
serveChains(ns, req, fail) ==
    LET e == initializeEnv([ns |-> ns, n |-> 0, fail |-> fail,
                            hit |-> "none"])
    IN  IF e.err # ErrNil THEN e ELSE setIptablesChains(e.st, req, 1)

\* the rules a chain of the request is to hold, as the namespace keeps them
Wanted(chain) ==
    [i \in 1..Len(chain.ipsets) |->
       Kept(DropRule(chain.name, chain.ipsets[i],
                     IF chain.direction = Chain_INPUT THEN "src" ELSE "dst"))]

\* the chains of a request that exist in the namespace with a rule the
\* request does not list
Stale(ns, req) ==
    {req[i].name : i \in {j \in 1..Len(req) :
       /\ req[j].name \in ns.exists
       /\ \E k \in 1..Len(ns.rules[req[j].name]) :
            \A h \in 1..Len(Wanted(req[j])) :
              ns.rules[req[j].name][k] # Wanted(req[j])[h]}}

\* a request of the controller reaches the daemon
ChainsRequest ==
    \E req \in ChainsRequests \ {chains} :
      /\ chains' = req
      /\ plast' = NoIptCall
      /\ UNCHANGED <<tcs, eth0, tlast, netns>>
      /\ UNCHANGED <<clock, chaos, last>>
      /\ UNCHANGED injVars
      /\ UNCHANGED aggVars
      /\ UNCHANGED restVars

\* daemonServer.SetIptablesChains serves the request; the pid lookup or one
\* of the commands may fail
SetIptablesChains ==
    \E fail \in ChainsOutcomes(serveChains(netns, chains, 0).st.n) :
      LET r == serveChains(netns, chains, fail)
          pidOk == fail >= 0
      IN  /\ netns' = IF pidOk THEN r.st.ns ELSE netns
          /\ plast' = [step |-> "SetIptablesChains",
                       err |-> IF pidOk THEN r.err ELSE ErrPid,
                       hit |-> IF pidOk THEN r.st.hit ELSE "none",
                       stale |-> Stale(netns, chains)]
          /\ UNCHANGED <<tcs, eth0, tlast, chains>>
          /\ UNCHANGED <<clock, chaos, last>>
          /\ UNCHANGED injVars
          /\ UNCHANGED aggVars
          /\ UNCHANGED restVars

NextIpt == ChainsRequest \/ SetIptablesChains

\* a pod's network namespace before the first call
InitIpt ==
    /\ clock = 1
    /\ chaos = NewChaos(NoScheduler, NilDuration)
    /\ last = NoRun(chaos)
    /\ res = NewChaos(NoScheduler, NilDuration)
    /\ pods = <<>>
    /\ ilast = NoRun(res)
    /\ AggInit
    /\ RestInit
    /\ DaemonInit

SpecIpt == InitIpt /\ [][NextIpt]_vars


\* the last SetIptablesChains call returned nil
IptDone == plast.step = "SetIptablesChains" /\ plast.err = ErrNil

\* C29: after a successful SetIptablesChains every chain of the request
\* exists and holds exactly the DROP rules of its listed ipsets, one per
\* ipset and in list order, with none of the rules it held before, whether
\* the chain was new or already there.
C29_ChainRewritten ==
    IptDone =>
      \A i \in 1..Len(chains) :
        /\ chains[i].name \in netns.exists
        /\ netns.rules[chains[i].name] = Wanted(chains[i])

\* C29 witness: a successful call on a chain that held a rule which the
\* request does not list
C29_Witness ==
    /\ IptDone
    /\ plast.stale # {}
    /\ \E i \in 1..Len(chains) :
         chains[i].name \in plast.stale /\ chains[i].ipsets = <<"A">>

\* C30 (as stated): a SetIptablesChains call in which a packet-filter
\* command failed returns an error.  The result of ensureRule is dropped
\* where the child chain is hooked into CHAOS-OUTPUT and where the CHAOS
\* chains are hooked into INPUT and OUTPUT, so these failures return nil.
C30_AsStated ==
    (plast.step = "SetIptablesChains" /\ plast.hit # "none") =>
      plast.err # ErrNil


\* the qdisc commands on eth0 (every command but the filters)
Qdiscs == {k \in 1..Len(eth0) : eth0[k].op # "filter"}

\* C40: whatever commands of a SetTcs call took effect, the handles of the
\* qdiscs are pairwise distinct, and every qdisc hangs below the root, below
\* the handle of a qdisc added before it, or in a band (1 .. bands) of a
\* prio qdisc added before it.
C40_HandlesDistinctParentsExist ==
    /\ \A k, j \in Qdiscs : k # j => eth0[k].handle # eth0[j].handle
    /\ \A k \in Qdiscs :
         \/ eth0[k].parent = 0 /\ eth0[k].class = 0
         \/ /\ eth0[k].class = 0
            /\ \E j \in Qdiscs : j < k /\ eth0[j].handle = eth0[k].parent
         \/ /\ eth0[k].class > 0
            /\ \E j \in Qdiscs :
                 /\ j < k
                 /\ eth0[j].op = "prio"
                 /\ eth0[j].handle = eth0[k].parent
                 /\ eth0[k].class \in 1..eth0[j].bands

\* C40 witness: a complete call for three items, two of them on ipset A
\* with the second chained below the first, the third elsewhere
C40_Witness ==
    /\ tlast.step = "SetTcs" /\ tlast.err = ErrNil
    /\ Cardinality(Qdiscs) = Len(tcs) + 4
    /\ Len(tcs) = 3
    /\ \E i, j \in 1..3 :
         /\ i < j
         /\ tcs[i].ipset = "A" /\ tcs[j].ipset = "A"
         /\ \E k, h \in Qdiscs :
              /\ eth0[k].item = i /\ eth0[h].item = j
              /\ eth0[h].class = 0 /\ eth0[h].parent = eth0[k].handle
    /\ \E i \in 1..3 : tcs[i].ipset # "A"


QuietRun ==
    /\ Ran
    /\ ~last.pre.deleted /\ ~last.pre.paused
    /\ last.pre.phase # ExperimentPhasePaused
    /\ last.err = ErrNil

\* C36 (as stated): every reconcile of a scheduled resource that is never
\* paused or deleted and whose calls succeed either acts (calls Apply or
\* Recover) or arranges a later reconcile (a result that asks for one), so
\* that Running is followed by a Recover and Waiting by an Apply.  A run at
\* exactly nextStart or nextRecover takes neither action branch (Before and
\* After are strict) and returns RequeueAfter = 0, which asks for nothing.
C36_AsStated ==
    QuietRun =>
      \/ last.applyCalled
      \/ last.recoverCalled
      \/ AsksRetry(ControllerReconcile(last))


\* ======== pausing a resource with injections ========
\* the user sets the pause annotation
InjPause ==
    /\ ~res.deleted
    /\ ~res.paused
    /\ res' = [res EXCEPT !.paused = TRUE]
    /\ UNCHANGED <<clock, chaos, last, pods, ilast>>
    /\ UNCHANGED aggVars
    /\ UNCHANGED restVars
    /\ UNCHANGED daemonVars

\* Reconcile, pause branch, with the Recover of the kind: Recover is called
\* only when the phase read is Running; the phase becomes Paused either way
InjReconcilePaused ==
    /\ ~Gone(res)
    /\ \E now \in clock..MaxTime :
         /\ \A t \in clock..(now - 1) : Step(res, t) # Step(res, now)
         /\ Step(res, now) = "pause"
         /\ \E okRpc \in (IF res.phase = ExperimentPhaseRunning
                          THEN SUBSET Reached(Holders(res.finalizers))
                          ELSE {{}}) :
              LET run == IF res.phase = ExperimentPhaseRunning
                         THEN Recover(res, pods, okRpc)
                         ELSE NewRun(res, pods)
                  o == pausedBranch(InMemory(res, run), run.errs = <<>>, now)
              IN  \E updateOk \in Accepts(o) :
                    InjFinish("pause", now, run, o, updateOk)

NextPause ==
    \/ InjPause
    \/ InjReconcileStart
    \/ InjReconcilePaused

SpecPause == InitInj /\ [][NextPause]_vars

\* C35 (as stated): while the stored phase is Paused, no injection of the
\* resource is in place on any pod.  The pause branch calls Recover only
\* when the phase it reads is Running: after an Apply that failed on some
\* targets the phase is Failed, the pause sets Paused without a Recover and
\* the injections that did succeed stay in place.
C35_AsStated ==
    res.phase = ExperimentPhasePaused => InPlace(pods) = {}


\* ---- partition Apply, the flush phase as the tasks of its errgroup ----
\* allPods is sources followed by targets; g.Go starts one flushTask per entry.
\* Every flushTask assigns the result of its first flush to the variable errShared of
\* the enclosing Apply, which all tasks share, and reads it back in the
\* next statement; the result of its second flush is returned directly.
ErrFlushIpSet == "flush ipset error"

ErrBlockSet == "set iptables failed"

TaskSteps == {"flushSourceSet", "checkErr", "flushTargetSet", "done"}

\* Apply up to g.Go for each of the n pods
ApplyFlushStart ==
    /\ flushApply.pc = "idle"
    /\ \E n \in 1..MaxPods :
         /\ flushTask' = [p \in 1..n |-> "flushSourceSet"]
         /\ flushRet' = [p \in 1..n |-> ErrNil]
    /\ flushApply' = [flushApply EXCEPT !.pc = "flushing"]
    /\ UNCHANGED errShared
    /\ UNCHANGED <<clock, chaos, last>>
    /\ UNCHANGED injVars /\ UNCHANGED aggVars /\ UNCHANGED daemonVars
    /\ UNCHANGED flushOthers

\* errShared = ipset.FlushIpSet(ctx, r.Client, &pod, &sourceSet)
FlushSourceSet(p) ==
    /\ flushTask[p] = "flushSourceSet"
    /\ \E ok \in BOOLEAN :
         /\ errShared' = IF ok THEN ErrNil ELSE ErrFlushIpSet
         /\ flushApply' = [flushApply EXCEPT !.flushFailed = IF ok THEN @ ELSE @ \cup {p}]
    /\ flushTask' = [flushTask EXCEPT ![p] = "checkErr"]
    /\ UNCHANGED flushRet
    /\ UNCHANGED <<clock, chaos, last>>
    /\ UNCHANGED injVars /\ UNCHANGED aggVars /\ UNCHANGED daemonVars
    /\ UNCHANGED flushOthers

\* if errShared != nil { return errShared }
FlushCheckErr(p) ==
    /\ flushTask[p] = "checkErr"
    /\ IF errShared # ErrNil
       THEN /\ flushRet' = [flushRet EXCEPT ![p] = errShared]
            /\ flushTask' = [flushTask EXCEPT ![p] = "done"]
       ELSE /\ flushTask' = [flushTask EXCEPT ![p] = "flushTargetSet"]
            /\ UNCHANGED flushRet
    /\ UNCHANGED <<errShared, flushApply>>
    /\ UNCHANGED <<clock, chaos, last>>
    /\ UNCHANGED injVars /\ UNCHANGED aggVars /\ UNCHANGED daemonVars
    /\ UNCHANGED flushOthers

\* return ipset.FlushIpSet(ctx, r.Client, &pod, &targetSet)
FlushTargetSet(p) ==
    /\ flushTask[p] = "flushTargetSet"
    /\ \E ok \in BOOLEAN :
         /\ flushRet' = [flushRet EXCEPT ![p] = IF ok THEN ErrNil ELSE ErrFlushIpSet]
         /\ flushApply' = [flushApply EXCEPT !.flushFailed = IF ok THEN @ ELSE @ \cup {p}]
    /\ flushTask' = [flushTask EXCEPT ![p] = "done"]
    /\ UNCHANGED errShared
    /\ UNCHANGED <<clock, chaos, last>>
    /\ UNCHANGED injVars /\ UNCHANGED aggVars /\ UNCHANGED daemonVars
    /\ UNCHANGED flushOthers

\* g.Wait(): the first error a flushTask returned, nil when none did
GroupWait(r) ==
    IF \E p \in DOMAIN r : r[p] # ErrNil THEN ErrFlushIpSet ELSE ErrNil

\* if errShared = g.Wait(); errShared != nil { return errShared }, then the chains are set on
\* the pods; okRpc are the pods whose chain call succeeds
ApplyAfterWait ==
    /\ flushApply.pc = "flushing"
    /\ \A p \in DOMAIN flushTask : flushTask[p] = "done"
    /\ errShared' = GroupWait(flushRet)
    /\ IF GroupWait(flushRet) # ErrNil
       THEN flushApply' = [flushApply EXCEPT !.pc = "returned",
                                             !.err = GroupWait(flushRet)]
       ELSE \E okRpc \in SUBSET DOMAIN flushTask :
              flushApply' = [flushApply EXCEPT
                                !.pc = "returned",
                                !.installed = okRpc,
                                !.err = IF okRpc = DOMAIN flushTask
                                        THEN ErrNil ELSE ErrBlockSet]
    /\ UNCHANGED <<flushTask, flushRet>>
    /\ UNCHANGED <<clock, chaos, last>>
    /\ UNCHANGED injVars /\ UNCHANGED aggVars /\ UNCHANGED daemonVars
    /\ UNCHANGED flushOthers

\* the next reconcile calls Apply again
ApplyAgain ==
    /\ flushApply.pc = "returned"
    /\ flushApply' = NoApply
    /\ flushTask' = [p \in {} |-> "done"]
    /\ flushRet' = [p \in {} |-> ErrNil]
    /\ errShared' = ErrNil
    /\ UNCHANGED <<clock, chaos, last>>
    /\ UNCHANGED injVars /\ UNCHANGED aggVars /\ UNCHANGED daemonVars
    /\ UNCHANGED flushOthers

NextFlush ==
    \/ ApplyFlushStart
    \/ \E p \in DOMAIN flushTask : FlushSourceSet(p)
    \/ \E p \in DOMAIN flushTask : FlushCheckErr(p)
    \/ \E p \in DOMAIN flushTask : FlushTargetSet(p)
    \/ ApplyAfterWait
    \/ ApplyAgain

\* nothing reconciled, no daemon call made
IdleInit ==
    /\ clock = 1
    /\ chaos = NewChaos(NoScheduler, NilDuration)
    /\ last = NoRun(chaos)
    /\ res = NewChaos(NoScheduler, NilDuration)
    /\ pods = <<>>
    /\ ilast = NoRun(res)
    /\ AggInit
    /\ DaemonInit

InitFlush == IdleInit /\ RestInit

SpecFlush == InitFlush /\ [][NextFlush]_vars

\* C37: when the flush of an ipset failed on some pod during partition
\* Apply, Apply returns an error and no chain is installed on any pod,
\* whatever the interleaving of the per-pod flush tasks.
C37_AsStated ==
    (flushApply.pc = "returned" /\ flushApply.flushFailed # {})
        => (flushApply.err # ErrNil /\ flushApply.installed = {})


\* ---- the controller process stops in the middle of a reconcile ----
\* Reconcile, new-round branch, cut short after the remote calls of Apply
\* and before r.Update: the pods keep what the calls did, the finalizers
\* that Apply inserted exist in the memory of the stopped process only, and
\* the stored resource stays as it was read.
InjControllerStops ==
    /\ ~Gone(res)
    /\ \E now \in clock..MaxTime :
         /\ \A t \in clock..(now - 1) : Step(res, t) # Step(res, now)
         /\ Step(res, now) = "start"
         /\ ~TooTight(NextTime(res.scheduler, now), now + DurationOf(res))
         /\ \E okFlush \in (IF res.kind \in {KindChains, KindPartition}
                            THEN SUBSET Reached(res.sources \cup res.targets)
                            ELSE {Reached(res.sources \cup res.targets)}) :
            \E okRpc \in (IF okFlush = Reached(res.sources \cup res.targets)
                          THEN SUBSET Reached(res.sources \cup res.targets)
                          ELSE {okFlush}) :
              LET run == Apply(res, pods, okFlush, okRpc)
                  o == [obj |-> InMemory(res, run), upd |-> "none",
                        err |-> ErrNil, requeue |-> FALSE]
              IN  InjFinish("stopped", now, run, o, FALSE)

NextStop ==
    \/ InjControllerStops
    \/ InjReconcileStart
    \/ InjDelete
    \/ InjReconcileDeleted

SpecStop == InitInj /\ [][NextStop]_vars

\* C38: when the controller stopped after the injection took effect on a
\* target and before the status update of that reconcile, the stored
\* resource lists the finalizer of that target.
C38_AsStated ==
    ilast.step = "stopped"
        => \A key \in InPlace(pods) : key[2] \in Holders(res.finalizers)


\* ---- the finalizers of the partition injector, as strings ----
\* A string is the sequence of its characters.  The names of namespaces and
\* pods are drawn over a few characters, among them ones that occur in the
\* prefixes.
KeyChars == {"a", "t", "-"}

RECURSIVE StringsOf(_)
StringsOf(n) ==
    IF n = 0 THEN {<<>>}
    ELSE LET shorter == StringsOf(n - 1)
         IN  shorter \cup {Append(s, c) : s \in {x \in shorter : Len(x) = n - 1},
                                          c \in KeyChars}

Names == StringsOf(MaxNameLen) \ {<<>>}

\* cache.MetaNamespaceKeyFunc(pod): <namespace>/<name>
MetaNamespaceKeyFunc(ns, name) == ns \o <<"/">> \o name

\* cache.SplitMetaNamespaceKey(key): strings.Split(key, "/"); one part is a
\* name without namespace, two parts are namespace and name, more are an
\* error
ErrKeyFormat == "unexpected key format"

SplitMetaNamespaceKey(key) ==
    LET cuts == {i \in 1..Len(key) : key[i] = "/"}
    IN  IF cuts = {}
        THEN [ns |-> <<>>, name |-> key, err |-> ErrNil]
        ELSE IF Cardinality(cuts) = 1
        THEN LET i == CHOOSE c \in cuts : TRUE
             IN  [ns |-> SubSeq(key, 1, i - 1),
                  name |-> SubSeq(key, i + 1, Len(key)), err |-> ErrNil]
        ELSE [ns |-> <<>>, name |-> <<>>, err |-> ErrKeyFormat]

Rule_INPUT == "Rule_INPUT"
Rule_OUTPUT == "Rule_OUTPUT"

\* variant: the input prefix without its dash
finalizerOf_NoDash(direction, key) ==
    IF direction = Rule_INPUT
    THEN <<"i", "n", "p", "u", "t">> \o key
    ELSE <<"o", "u", "t", "p", "u", "t">> \o key

\* BlockSet: "input-"+key for Rule_INPUT, "output"+key for Rule_OUTPUT
finalizerOf(direction, key) ==
    IF direction = Rule_INPUT
    THEN <<"i", "n", "p", "u", "t", "-">> \o key
    ELSE <<"o", "u", "t", "p", "u", "t">> \o key

\* cleanFinalizersAndRecover on one finalizer: direction := key[0:6],
\* podKey := key[6:], the pod key split into namespace and name, and the
\* direction of the rule that the switch over direction builds
splitFinalizer(key) ==
    LET direction == SubSeq(key, 1, 6)
        podKey == SubSeq(key, 7, Len(key))
        s == SplitMetaNamespaceKey(podKey)
    IN  [direction |-> direction, podKey |-> podKey,
         ns |-> s.ns, name |-> s.name, err |-> s.err,
         rule |-> IF direction = <<"o", "u", "t", "p", "u", "t">>
                  THEN Rule_OUTPUT
                  ELSE IF direction = <<"i", "n", "p", "u", "t", "-">>
                  THEN Rule_INPUT ELSE ""]

\* BlockSet inserts the finalizer of the pod
KeyInsert ==
    /\ fkey.step = "drawn"
    /\ fkey' = [fkey EXCEPT !.step = "inserted",
                            !.finalizer = finalizerOf(fkey.direction, fkey.key)]
    /\ UNCHANGED <<clock, chaos, last>>
    /\ UNCHANGED injVars /\ UNCHANGED aggVars /\ UNCHANGED daemonVars
    /\ UNCHANGED <<flushVars, victim, ev, net>>

\* Recover reads the finalizer back
KeySplit ==
    /\ fkey.step = "inserted"
    /\ Len(fkey.finalizer) >= 6
    /\ fkey' = [fkey EXCEPT !.step = "split",
                            !.parsed = splitFinalizer(fkey.finalizer)]
    /\ UNCHANGED <<clock, chaos, last>>
    /\ UNCHANGED injVars /\ UNCHANGED aggVars /\ UNCHANGED daemonVars
    /\ UNCHANGED <<flushVars, victim, ev, net>>

NextKey == KeyInsert \/ KeySplit

InitKey ==
    /\ IdleInit
    /\ FlushInit
    /\ victim = NoVictim
    /\ ev = NoEvents
    /\ net = NoPartition
    /\ \E ns \in Names, name \in Names, d \in {Rule_INPUT, Rule_OUTPUT} :
         fkey = [NoKey EXCEPT !.step = "drawn", !.direction = d,
                              !.ns = ns, !.name = name,
                              !.key = MetaNamespaceKeyFunc(ns, name)]

SpecKey == InitKey /\ [][NextKey]_vars

\* C39: for a finalizer that the partition injector inserted, the split of
\* Recover at position 6 gives the direction that BlockSet was called with
\* and the pod key it used, which splits into the pod's namespace and name.
C39_SplitGivesBack ==
    fkey.step = "split"
        => /\ fkey.parsed.rule = fkey.direction
           /\ fkey.parsed.podKey = fkey.key
           /\ fkey.parsed.err = ErrNil
           /\ fkey.parsed.ns = fkey.ns
           /\ fkey.parsed.name = fkey.name

\* an input finalizer of a pod whose namespace starts with a dash and a t,
\* read back
C39_Witness ==
    /\ fkey.step = "split"
    /\ fkey.direction = Rule_INPUT
    /\ fkey.ns = <<"-", "t">>
    /\ fkey.parsed.rule = Rule_INPUT


\* ---- pod-failure on one pod, container by container ----
\* The pod has one init container, 0, and the containers 1..MaxContainers.
ContainerNames == 0..MaxContainers

Images == {"v1", "v2"}

pauseImage == "gcr.io/google-containers/pause:latest"

\* utils.GenAnnotationKeyForImage(podchaos, name): one key per chaos and
\* container
GenAnnotationKeyForImage(podchaos, name) == <<podchaos, name>>

\* variant: the annotation is written whether or not it exists
failContainer_Overwrite(pod, name) ==
    LET key == GenAnnotationKeyForImage(SourceSelf, name)
    IN  [pod EXCEPT
           !.annotations = [k \in DOMAIN pod.annotations \cup {key} |->
                              IF k = key THEN pod.images[name]
                              ELSE pod.annotations[k]],
           !.images[name] = pauseImage]

\* the body of either loop of failPod for one container: nothing when the
\* annotation exists, else the image goes to the annotation and the pause
\* image takes its place
failContainer(pod, name) ==
    LET key == GenAnnotationKeyForImage(SourceSelf, name)
    IN  IF key \in DOMAIN pod.annotations
        THEN [pod EXCEPT !.skipped = @ \cup {name}]
        ELSE [pod EXCEPT
                !.annotations = [k \in DOMAIN pod.annotations \cup {key} |->
                                   IF k = key THEN pod.images[name]
                                   ELSE pod.annotations[k]],
                !.images[name] = pauseImage]

\* the loops of failPod: the init containers, then the containers, in order
RECURSIVE failContainers(_, _)
failContainers(pod, name) ==
    IF name > MaxContainers THEN pod
    ELSE failContainers(failContainer(pod, name), name + 1)

\* failPod: the object in memory is changed, then written with r.Update;
\* when the write is refused the pod stays as it was
failPod ==
    /\ victim.step # "none"
    /\ \E updateOk \in BOOLEAN :
         LET pod == failContainers([victim EXCEPT !.skipped = {}], 0)
         IN  victim' =
               IF updateOk
               THEN [pod EXCEPT
                       !.step = "failed",
                       !.origin = IF victim.origin = <<>>
                                  THEN victim.images ELSE @]
               ELSE [victim EXCEPT !.step = "refused", !.skipped = pod.skipped]
    /\ UNCHANGED <<clock, chaos, last>>
    /\ UNCHANGED injVars /\ UNCHANGED aggVars /\ UNCHANGED daemonVars
    /\ UNCHANGED <<flushVars, fkey, ev, net>>

\* somebody else sets the image of a container of the pod
VictimSetImage ==
    /\ victim.step # "none"
    /\ \E name \in ContainerNames, image \in Images :
         /\ victim.images[name] # image
         /\ victim' = [victim EXCEPT !.step = "edited", !.images[name] = image]
    /\ UNCHANGED <<clock, chaos, last>>
    /\ UNCHANGED injVars /\ UNCHANGED aggVars /\ UNCHANGED daemonVars
    /\ UNCHANGED <<flushVars, fkey, ev, net>>

\* recoverPod deletes the pod, and its owner creates it again from the
\* template: no annotation of the chaos, no injection yet
VictimRecreated ==
    /\ victim.step # "none"
    /\ victim.annotations # <<>>
    /\ \E images \in [ContainerNames -> Images] :
         victim' = [NoVictim EXCEPT !.step = "created", !.images = images]
    /\ UNCHANGED <<clock, chaos, last>>
    /\ UNCHANGED injVars /\ UNCHANGED aggVars /\ UNCHANGED daemonVars
    /\ UNCHANGED <<flushVars, fkey, ev, net>>

NextFail == failPod \/ VictimSetImage \/ VictimRecreated

InitFail ==
    /\ IdleInit
    /\ FlushInit
    /\ fkey = NoKey
    /\ ev = NoEvents
    /\ net = NoPartition
    /\ \E images \in [ContainerNames -> Images] :
         victim = [NoVictim EXCEPT !.step = "created", !.images = images]

SpecFail == InitFail /\ [][NextFail]_vars

\* C32: however often failPod is applied to the pod, the annotation of each
\* container holds the image that the container had before the first
\* injection into this pod.
C32_OriginalKept ==
    \A name \in ContainerNames :
      GenAnnotationKeyForImage(SourceSelf, name) \in DOMAIN victim.annotations
        => victim.annotations[GenAnnotationKeyForImage(SourceSelf, name)]
             = victim.origin[name]

\* failPod was applied to a pod that it had failed before: every container
\* was skipped, and a container whose image was set again in between still
\* has its first image recorded
C32_Witness ==
    /\ victim.step = "failed"
    /\ victim.skipped = ContainerNames
    /\ victim.images[1] = "v2"
    /\ victim.annotations[GenAnnotationKeyForImage(SourceSelf, 1)] = "v1"


\* ---- the collector and the event store ----
\* The collector watches one chaos resource, so namespace and experiment
\* are fixed and an Event record is told apart by its startTime.  The store
\* holds the records in the order they were created.

\* core.EventStore.Create: the record is added to the store
storeCreate(events, event) == Append(events, event)

\* core.EventStore.FindByExperimentAndStartTime: is there a record with
\* the key
storeFind(events, startTime) ==
    \E i \in 1..Len(events) : events[i].startTime = startTime

\* core.EventStore.Update: the records with the key get the finish time
storeUpdate(events, startTime) ==
    [i \in 1..Len(events) |->
       IF events[i].startTime = startTime
       THEN [events[i] EXCEPT !.finished = TRUE] ELSE events[i]]

\* createEvent
createEvent(events, startTime) ==
    storeCreate(events, [startTime |-> startTime, finished |-> FALSE])

\* updateOrCreateEvent
updateOrCreateEvent(events, startTime) ==
    storeUpdate(IF storeFind(events, startTime) THEN events
                ELSE createEvent(events, startTime), startTime)

\* recordEvent
recordEvent(events, phase, startTime) ==
    IF phase = ExperimentPhaseRunning THEN createEvent(events, startTime)
    ELSE IF phase \in {ExperimentPhaseFinished, ExperimentPhasePaused}
    THEN updateOrCreateEvent(events, startTime)
    ELSE events

\* ChaosCollector.Reconcile: a deleted resource is archived, any other has
\* its event recorded
CollectorReconcile ==
    /\ ev.step # "none"
    /\ Len(ev.events) < MaxEvents
    /\ ev' = IF ev.deleted THEN [ev EXCEPT !.step = "archived"]
             ELSE [ev EXCEPT !.step = "recorded",
                             !.events = recordEvent(@, ev.phase, ev.startTime)]
    /\ UNCHANGED <<clock, chaos, last>>
    /\ UNCHANGED injVars /\ UNCHANGED aggVars /\ UNCHANGED daemonVars
    /\ UNCHANGED <<flushVars, fkey, victim, net>>

\* the chaos controller starts a round: Running, with a new startTime
CollectedStarts ==
    /\ ev.step # "none"
    /\ ~ev.deleted
    /\ ev.phase # ExperimentPhaseRunning
    /\ ev.startTime < MaxTime
    /\ ev' = [ev EXCEPT !.step = "started", !.phase = ExperimentPhaseRunning,
                        !.startTime = @ + 1]
    /\ UNCHANGED <<clock, chaos, last>>
    /\ UNCHANGED injVars /\ UNCHANGED aggVars /\ UNCHANGED daemonVars
    /\ UNCHANGED <<flushVars, fkey, victim, net>>

\* the chaos controller ends or pauses the round
CollectedEnds ==
    /\ ev.step # "none"
    /\ ~ev.deleted
    /\ ev.phase = ExperimentPhaseRunning
    /\ \E phase \in {ExperimentPhaseFinished, ExperimentPhasePaused} :
         ev' = [ev EXCEPT !.step = "ended", !.phase = phase]
    /\ UNCHANGED <<clock, chaos, last>>
    /\ UNCHANGED injVars /\ UNCHANGED aggVars /\ UNCHANGED daemonVars
    /\ UNCHANGED <<flushVars, fkey, victim, net>>

\* the user deletes the resource
CollectedDeleted ==
    /\ ev.step # "none"
    /\ ~ev.deleted
    /\ ev' = [ev EXCEPT !.step = "deleted", !.deleted = TRUE]
    /\ UNCHANGED <<clock, chaos, last>>
    /\ UNCHANGED injVars /\ UNCHANGED aggVars /\ UNCHANGED daemonVars
    /\ UNCHANGED <<flushVars, fkey, victim, net>>

NextCollect ==
    \/ CollectorReconcile
    \/ CollectedStarts
    \/ CollectedEnds
    \/ CollectedDeleted

InitCollect ==
    /\ IdleInit
    /\ FlushInit
    /\ fkey = NoKey
    /\ victim = NoVictim
    /\ net = NoPartition
    /\ ev = [NoEvents EXCEPT !.step = "created"]

SpecCollect == InitCollect /\ [][NextCollect]_vars

\* C33: the store holds at most one Event record for a startTime of the
\* resource: reconciles of a resource that stays Running with the same
\* startTime add no record.
C33_AsStated ==
    \A i, j \in 1..Len(ev.events) :
      ev.events[i].startTime = ev.events[j].startTime => i = j


\* ---- a partition among the peer pods, packet by packet ----
\* A pod's address is its number.  Every pod has a network namespace as the
\* daemon keeps it and the ipsets that FlushIPSets stored in it.
Peers == {1, 2, 3}

\* a partition is created, and created once more after its recovery
Rounds == {1, 2}

sourceIPSetPostFix == "src"
targetIPSetPostFix == "tgt"

\* variant: the From branch gives the sources the chain of the To branch
partitionChains_FromAsTo(direction) ==
    LET out(set) == [name |-> GenerateName(Chain_OUTPUT),
                     direction |-> Chain_OUTPUT, ipsets |-> <<set>>]
        inp(set) == [name |-> GenerateName(Chain_INPUT),
                     direction |-> Chain_INPUT, ipsets |-> <<set>>]
        toward == direction \in {To, Both}
        back == direction \in {From, Both}
    IN  [sources |-> (IF toward THEN <<out(targetIPSetPostFix)>> ELSE <<>>) \o
                     (IF back THEN <<out(targetIPSetPostFix)>> ELSE <<>>),
         targets |-> (IF toward THEN <<inp(sourceIPSetPostFix)>> ELSE <<>>) \o
                     (IF back THEN <<out(sourceIPSetPostFix)>> ELSE <<>>)]

\* Apply, the chains for the sources and for the targets
partitionChains(direction) ==
    LET out(set) == [name |-> GenerateName(Chain_OUTPUT),
                     direction |-> Chain_OUTPUT, ipsets |-> <<set>>]
        inp(set) == [name |-> GenerateName(Chain_INPUT),
                     direction |-> Chain_INPUT, ipsets |-> <<set>>]
        toward == direction \in {To, Both}
        back == direction \in {From, Both}
    IN  [sources |-> (IF toward THEN <<out(targetIPSetPostFix)>> ELSE <<>>) \o
                     (IF back THEN <<inp(targetIPSetPostFix)>> ELSE <<>>),
         targets |-> (IF toward THEN <<inp(sourceIPSetPostFix)>> ELSE <<>>) \o
                     (IF back THEN <<out(sourceIPSetPostFix)>> ELSE <<>>)]

\* Recover, the chains sent to every pod with a finalizer: both without
\* ipsets
recoverChains ==
    <<[name |-> GenerateName(Chain_INPUT), direction |-> Chain_INPUT,
       ipsets |-> <<>>],
      [name |-> GenerateName(Chain_OUTPUT), direction |-> Chain_OUTPUT,
       ipsets |-> <<>>]>>

\* the namespace after a SetIptablesChains call in which no command fails
Served(ns, req) == serveChains(ns, req, 0).st.ns

\* does the namespace drop the packet on its way through the chain: a DROP
\* rule matches when the source or destination address is in its ipset, a
\* jump leads through the chain it names
RECURSIVE chainDrops(_, _, _, _, _)
chainDrops(ns, sets, name, packet, depth) ==
    /\ depth > 0
    /\ name \in ns.exists
    /\ \E k \in 1..Len(ns.rules[name]) :
         LET rule == ns.rules[name][k]
         IN  IF rule[Len(rule)] = "DROP"
             THEN /\ rule[6] \in DOMAIN sets
                  /\ (IF rule[7] = "src" THEN packet.src ELSE packet.dst)
                       \in sets[rule[6]]
             ELSE chainDrops(ns, sets, rule[Len(rule)], packet, depth - 1)

\* a packet from pod p to pod q leaves through OUTPUT of p and arrives
\* through INPUT of q
Dropped(p, q) ==
    LET packet == [src |-> p, dst |-> q]
    IN  \/ chainDrops(net.netns[p], net.ipsets[p], "OUTPUT", packet, 3)
        \/ chainDrops(net.netns[q], net.ipsets[q], "INPUT", packet, 3)

\* the user creates a partition
PartitionCreate ==
    /\ net.step \in {"none", "recovered"}
    /\ net.round + 1 \in Rounds
    /\ \E direction \in Directions, sources \in SUBSET Peers \ {{}},
          targets \in SUBSET Peers :
         net' = [net EXCEPT !.step = "created", !.round = @ + 1,
                            !.direction = direction,
                            !.sources = sources, !.targets = targets,
                            !.ipsets = IF net.step = "none"
                                       THEN [p \in Peers |-> <<>>] ELSE @,
                            !.netns = IF net.step = "none"
                                      THEN [p \in Peers |-> FreshNetns] ELSE @]
    /\ UNCHANGED <<clock, chaos, last>>
    /\ UNCHANGED injVars /\ UNCHANGED aggVars /\ UNCHANGED daemonVars
    /\ UNCHANGED <<flushVars, fkey, victim, ev>>

\* Apply with every call succeeding: the two ipsets are stored on all pods
\* of the partition, then the sources get their chains, then the targets
PartitionApply ==
    /\ net.step = "created"
    /\ LET allPods == net.sources \cup net.targets
           c == partitionChains(net.direction)
           s1 == [p \in Peers |-> IF p \in net.sources
                                  THEN Served(net.netns[p], c.sources)
                                  ELSE net.netns[p]]
       IN  net' = [net EXCEPT
                     !.step = "applied",
                     !.ipsets = [p \in Peers |->
                                   IF p \in allPods
                                   THEN [s \in {sourceIPSetPostFix,
                                                targetIPSetPostFix} |->
                                           IF s = sourceIPSetPostFix
                                           THEN net.sources ELSE net.targets]
                                   ELSE @[p]],
                     !.netns = [p \in Peers |->
                                  IF p \in net.targets
                                  THEN Served(s1[p], c.targets) ELSE s1[p]]]
    /\ UNCHANGED <<clock, chaos, last>>
    /\ UNCHANGED injVars /\ UNCHANGED aggVars /\ UNCHANGED daemonVars
    /\ UNCHANGED <<flushVars, fkey, victim, ev>>

\* Recover with every call succeeding
PartitionRecover ==
    /\ net.step = "applied"
    /\ net' = [net EXCEPT
                 !.step = "recovered",
                 !.netns = [p \in Peers |->
                              IF p \in net.sources \cup net.targets
                              THEN Served(@[p], recoverChains) ELSE @[p]]]
    /\ UNCHANGED <<clock, chaos, last>>
    /\ UNCHANGED injVars /\ UNCHANGED aggVars /\ UNCHANGED daemonVars
    /\ UNCHANGED <<flushVars, fkey, victim, ev>>

NextPartition == PartitionCreate \/ PartitionApply \/ PartitionRecover

InitPartition == IdleInit /\ RestInit

SpecPartition == InitPartition /\ [][NextPartition]_vars

\* the packets a partition is to drop
Toward(p, q) == p \in net.sources /\ q \in net.targets

Back(p, q) == p \in net.targets /\ q \in net.sources

ToDrop(p, q) ==
    \/ net.direction \in {To, Both} /\ Toward(p, q)
    \/ net.direction \in {From, Both} /\ Back(p, q)

\* C31: once a partition is applied, a packet is dropped exactly when it
\* goes from a selected pod to a target pod (direction to), from a target
\* pod to a selected pod (from), or either way (both); a packet between any
\* other pair of pods passes.
C31_DropsExactly ==
    net.step = "applied"
        => \A p, q \in Peers : Dropped(p, q) <=> ToDrop(p, q)

\* direction from, pod 1 selected, pod 2 target, applied after an earlier
\* partition was recovered: 2 to 1 is dropped, 1 to 2 and the packets of
\* pod 3 pass
C31_Witness ==
    /\ net.step = "applied"
    /\ net.direction = From
    /\ net.sources = {1}
    /\ net.targets = {2}
    /\ net.netns[3] # FreshNetns
    /\ Dropped(2, 1)
    /\ ~Dropped(1, 2)
    /\ ~Dropped(3, 1)

====
